---------------------------- MODULE Spec2Model ----------------------------
(***************************************************************************)
(* Model of the portfolio tracker's transaction import and position-state  *)
(* engine: the Decimal arithmetic it relies on, the FIFO position-state    *)
(* calculator (src/src/app/calc.rs) and Portfolio::import_transactions     *)
(* (src/src/app/portfolio.rs) over the transactions table.                 *)
(***************************************************************************)
EXTENDS Integers, Sequences, FiniteSets, TLC

(***************************************************************************)
(* Decimal arithmetic.  A Decimal is modelled as the integer number of     *)
(* 10^-DecimalPlaces units it holds (rust_decimal keeps up to 28 places;   *)
(* the model keeps DecimalPlaces, one more than the 4 places the code      *)
(* rounds to, so that rounding and inexact division are observable).       *)
(***************************************************************************)
DecimalPlaces == 5

RoundPlaces == 4

Unit == 10 ^ DecimalPlaces

\* The decimal literal n * 10^-d.
Dec(n, d) == n * 10 ^ (DecimalPlaces - d)

DecAbs(x) == IF x < 0 THEN 0 - x ELSE x

\* n / d rounded to the nearest integer, ties to the even one (d > 0).
RoundHalfEven(n, d) ==
    LET q == n \div d
        r == n % d
    IN  IF 2 * r < d THEN q
        ELSE IF 2 * r > d THEN q + 1
        ELSE IF q % 2 = 0 THEN q ELSE q + 1

\* Decimal::round_dp(dp): banker's rounding to dp places.
DecRoundDp(x, dp) ==
    LET step == 10 ^ (DecimalPlaces - dp)
    IN  RoundHalfEven(x, step) * step

\* Decimal::floor of a non-negative value.
DecFloor(x) == (x \div Unit) * Unit

\* Decimal::to_i64 of an integral value.
DecToI64(x) == x \div Unit

RECURSIVE LongDiv(_, _, _, _)
\* Schoolbook division of the remainder r by b, k more digits to produce.
LongDiv(q, r, b, k) ==
    IF k = 0
    THEN IF 2 * r < b THEN q
         ELSE IF 2 * r > b THEN q + 1
         ELSE IF q % 2 = 0 THEN q ELSE q + 1
    ELSE LongDiv(q * 10 + ((r * 10) \div b), (r * 10) % b, b, k - 1)

\* Decimal / Decimal (b # 0): the quotient carried to the last kept place
\* and rounded half-even there.
DecDiv(a, b) ==
    LET sign == IF (a < 0) = (b < 0) THEN 1 ELSE 0 - 1
        aa == DecAbs(a)
        bb == DecAbs(b)
    IN  sign * LongDiv(aa \div bb, aa % bb, bb, DecimalPlaces)

RECURSIVE StripZeros(_, _)
\* x = m * 10^z with as many trailing zeros removed as the scale allows.
StripZeros(m, z) ==
    IF m # 0 /\ z < DecimalPlaces /\ m % 10 = 0
    THEN StripZeros(m \div 10, z + 1)
    ELSE [m |-> m, z |-> z]

\* Decimal * Decimal: exact when the product fits the kept places,
\* rounded half-even to them otherwise.
DecMul(a, b) ==
    LET sa == StripZeros(a, 0)
        sb == StripZeros(b, 0)
        zs == sa.z + sb.z
        p  == sa.m * sb.m
    IN  IF zs >= DecimalPlaces
        THEN p * 10 ^ (zs - DecimalPlaces)
        ELSE RoundHalfEven(p, 10 ^ (DecimalPlaces - zs))

RECURSIVE SumSeq(_)
SumSeq(s) == IF s = <<>> THEN 0 ELSE Head(s) + SumSeq(Tail(s))

(***************************************************************************)
(* calculate_position_state (src/src/app/calc.rs).                         *)
(***************************************************************************)
PositionState(units, cost, sold) ==
    [cumulative_units |-> units, cumulative_cost |-> cost, cost_of_units_sold |-> sold]

CalcOk(ps) == [ok |-> TRUE, state |-> ps, err |-> "none"]

CalcErr(e) == [ok |-> FALSE, state |-> PositionState(0, 0, 0), err |-> e]

\* quantity.abs().floor().to_i64()
QuantityAbs(quantity) == DecToI64(DecFloor(DecAbs(quantity)))

\* for _ in 0..quantity_abs { queue.push_back(unit_cost) }
BuyUnits(queue, unit_cost, n) == queue \o [k \in 1..n |-> unit_cost]

RECURSIVE SellUnits_Lifo(_, _, _)
\* Variant: the newest unit is taken first.
SellUnits_Lifo(queue, sold, n) ==
    IF n = 0 THEN [ok |-> TRUE, queue |-> queue, sold |-> sold]
    ELSE IF queue = <<>> THEN [ok |-> FALSE, queue |-> queue, sold |-> sold]
    ELSE SellUnits_Lifo(SubSeq(queue, 1, Len(queue) - 1), sold + queue[Len(queue)], n - 1)

RECURSIVE SellUnits_Tolerant(_, _, _)
\* Variant: popping stops at an empty queue and the excess is ignored.
SellUnits_Tolerant(queue, sold, n) ==
    IF n = 0 \/ queue = <<>> THEN [ok |-> TRUE, queue |-> queue, sold |-> sold]
    ELSE SellUnits_Tolerant(Tail(queue), sold + Head(queue), n - 1)

RECURSIVE SellUnits(_, _, _)
\* for _ in 0..quantity_abs { if queue.is_empty() { return Err } ;
\*                            cost_of_units_sold += queue[0]; queue.pop_front() }
SellUnits(queue, sold, n) ==
    IF n = 0 THEN [ok |-> TRUE, queue |-> queue, sold |-> sold]
    ELSE IF queue = <<>> THEN [ok |-> FALSE, queue |-> queue, sold |-> sold]
    ELSE SellUnits(Tail(queue), sold + Head(queue), n - 1)

\* if cumulative_units.round_dp(4) == 0 { while !queue.is_empty() { queue.pop_front() } }
DrainIfFlat(queue, cumulative_units) ==
    IF DecRoundDp(cumulative_units, RoundPlaces) = 0 THEN <<>> ELSE queue

ReplayStart ==
    [ok |-> TRUE, err |-> "none", queue |-> <<>>, cumulative_units |-> 0,
     cost_of_units_sold |-> 0]

\* Variant: an element with quantity zero is passed over.
ReplayStep_ZeroIgnored(st, amount, quantity) ==
    IF ~st.ok \/ quantity = 0 THEN st
    ELSE
    LET unit_cost == DecDiv(amount, quantity)
        cum       == st.cumulative_units + quantity
        n         == QuantityAbs(quantity)
        bought    == IF amount < 0 THEN BuyUnits(st.queue, unit_cost, n) ELSE st.queue
        sale      == IF amount > 0 THEN SellUnits(bought, 0, n)
                     ELSE [ok |-> TRUE, queue |-> bought, sold |-> 0]
        after     == IF amount > 0 THEN DrainIfFlat(sale.queue, cum) ELSE sale.queue
    IN  IF ~sale.ok
        THEN [st EXCEPT !.ok = FALSE, !.err = "sell more units than available"]
        ELSE [ok |-> TRUE, err |-> "none", queue |-> after, cumulative_units |-> cum,
              cost_of_units_sold |-> sale.sold]

\* One iteration of the loop over the inputs, for the element (amount, quantity).
ReplayStep(st, amount, quantity) ==
    IF ~st.ok THEN st
    ELSE IF quantity = 0
    THEN [st EXCEPT !.ok = FALSE, !.err = "quantity is zero", !.cost_of_units_sold = 0]
    ELSE
    LET unit_cost == DecDiv(amount, quantity)
        cum       == st.cumulative_units + quantity
        n         == QuantityAbs(quantity)
        bought    == IF amount < 0 THEN BuyUnits(st.queue, unit_cost, n) ELSE st.queue
        sale      == IF amount > 0 THEN SellUnits(bought, 0, n)
                     ELSE [ok |-> TRUE, queue |-> bought, sold |-> 0]
        after     == IF amount > 0 THEN DrainIfFlat(sale.queue, cum) ELSE sale.queue
    IN  IF ~sale.ok
        THEN [st EXCEPT !.ok = FALSE, !.err = "sell more units than available"]
        ELSE [ok |-> TRUE, err |-> "none", queue |-> after, cumulative_units |-> cum,
              cost_of_units_sold |-> sale.sold]

RECURSIVE ReplayUpTo(_, _, _)
\* The loop's state after its first i iterations.
ReplayUpTo(amounts, quantities, i) ==
    IF i = 0 THEN ReplayStart
    ELSE ReplayStep(ReplayUpTo(amounts, quantities, i - 1), amounts[i], quantities[i])

calculate_position_state(amounts, quantities) ==
    IF Len(amounts) # Len(quantities) THEN CalcErr("different lengths")
    ELSE IF amounts = <<>> THEN CalcErr("empty")
    ELSE LET st == ReplayUpTo(amounts, quantities, Len(amounts))
         IN  IF ~st.ok THEN CalcErr(st.err)
             ELSE CalcOk(PositionState(DecRoundDp(DecAbs(st.cumulative_units), RoundPlaces),
                                       DecAbs(SumSeq(st.queue)),
                                       DecAbs(st.cost_of_units_sold)))

(***************************************************************************)
(* Transaction (src/src/models/transaction.rs).                            *)
(***************************************************************************)
TransactionTypes == {"Buy", "Sell", "Div"}

\* Transaction::get_amount: price * exchange_rate * quantity + fees, negated
\* for a Buy.
get_amount(t) ==
    LET amount == DecMul(DecMul(t.price, t.exchange_rate), t.quantity) + t.fees
    IN  IF t.transaction_type = "Buy" THEN 0 - amount ELSE amount

\* Transaction::get_quantity: the quantity, negated unless a Buy.
get_quantity(t) ==
    IF t.transaction_type = "Buy" THEN t.quantity ELSE 0 - t.quantity

\* Variant: the gain is computed for every type of transaction.
calculate_transaction_gains_AnyType(t, position_state) ==
    [realized_gains |-> DecAbs(get_amount(t)) - position_state.cost_of_units_sold,
     dividends_collected |->
        IF t.transaction_type = "Div" THEN get_amount(t) ELSE 0]

\* calculate_transaction_gains
calculate_transaction_gains(t, position_state) ==
    [realized_gains |->
        IF t.transaction_type = "Sell"
        THEN DecAbs(get_amount(t)) - position_state.cost_of_units_sold ELSE 0,
     dividends_collected |->
        IF t.transaction_type = "Div" THEN get_amount(t) ELSE 0]

(***************************************************************************)
(* The world outside: what the quote and FX providers answer when they     *)
(* answer, and the portfolio's base currency.                              *)
(***************************************************************************)
Symbols == {"AAA", "BBB"}

BaseCurrency == "EUR"

\* The ticker a provider returns for a symbol.
TickerOf(symbol) ==
    IF symbol = "AAA"
    THEN [symbol |-> "AAA", name |-> "Alpha", currency |-> "EUR", exchange |-> "XETRA",
          last_price |-> Dec(12, 0), api |-> "Fmp"]
    ELSE [symbol |-> symbol, name |-> "Beta", currency |-> "USD", exchange |-> "NASDAQ",
          last_price |-> Dec(30, 0), api |-> "Av"]

(***************************************************************************)
(* Ticker resolution.  A provider's answer to a symbol search is a request *)
(* that failed, a JSON value that is no array, or an array of items, each  *)
(* of which deserialises into a search result (named here by the symbol of *)
(* its ticker) or does not ("bad").                                        *)
(***************************************************************************)
SearchOk(items) == [ok |-> TRUE, items |-> items]

SearchErr == [ok |-> FALSE, items |-> <<>>]

\* Variant: an array without a valid item is passed on as an empty result.
parse_response_array_EmptyOk(data) ==
    IF data.kind # "array" THEN SearchErr
    ELSE SearchOk(SelectSeq(data.items, LAMBDA item : item # "bad"))

\* parse_response_array: the items that deserialise, an error when there is
\* none or the value is no array.
parse_response_array(data) ==
    IF data.kind # "array" THEN SearchErr
    ELSE LET result == SelectSeq(data.items, LAMBDA item : item # "bad")
         IN  IF result = <<>> THEN SearchErr ELSE SearchOk(result)

\* search_symbol: the request, then the parsed array.
search_symbol(data) ==
    IF data.kind = "failed" THEN SearchErr ELSE parse_response_array(data)

\* The providers in the order find_ticker takes its keys.
ProviderOrder == <<"Fmp", "Av">>

NoTicker == [symbol |-> "", name |-> "", currency |-> "", exchange |-> "",
             last_price |-> 0, api |-> "none"]

RECURSIVE FindFrom(_, _, _)
\* The providers from the k-th on are tried in order until one answers.
FindFrom(responses, k, consulted) ==
    IF k > Len(ProviderOrder)
    THEN [ok |-> FALSE, ticker |-> NoTicker, consulted |-> consulted]
    ELSE LET provider == ProviderOrder[k]
             found    == search_symbol(responses[provider])
         IN  IF found.ok
             THEN [ok |-> TRUE,
                   ticker |-> IF found.items = <<>> THEN NoTicker
                              ELSE [symbol |-> found.items[1], name |-> found.items[1],
                                    currency |-> "USD", exchange |-> "NASDAQ",
                                    last_price |-> 0, api |-> provider],
                   consulted |-> Append(consulted, provider)]
             ELSE FindFrom(responses, k + 1, Append(consulted, provider))

\* find_ticker: the first provider, in order, whose search succeeds.
find_ticker(responses) == FindFrom(responses, 1, <<>>)

\* The historical rate the FX provider returns for a pair of different
\* currencies.
FxQuote(from, to) == IF from = "USD" THEN Dec(5, 1) ELSE Dec(2, 0)

\* Variant: the provider is asked whatever the currencies.
get_exchange_rate_AlwaysAsked(from, to, lookup_ok) ==
    IF lookup_ok THEN [ok |-> TRUE, rate |-> IF from = to THEN Dec(1, 0) ELSE FxQuote(from, to)]
    ELSE [ok |-> FALSE, rate |-> 0]

\* get_exchange_rate: 1 for equal currencies, without a lookup; otherwise
\* the provider's quote, or an error when the lookup fails.
get_exchange_rate(from, to, lookup_ok) ==
    IF from = to THEN [ok |-> TRUE, rate |-> Dec(1, 0)]
    ELSE IF lookup_ok THEN [ok |-> TRUE, rate |-> FxQuote(from, to)]
    ELSE [ok |-> FALSE, rate |-> 0]

(***************************************************************************)
(* CSV records.  A record carries the value each column parses to and, in  *)
(* bad, the one column (if any) whose text does not parse.                 *)
(***************************************************************************)
CsvRecord(no, bad, ttype, symbol, quantity, price, fees, alt, currency) ==
    [transaction_no |-> no, date |-> "2024-01-02", bad |-> bad,
     transaction_type |-> ttype, symbol |-> symbol, quantity |-> quantity,
     price |-> price, fees |-> fees, broker |-> "B1",
     alternative_symbol |-> alt, transaction_currency |-> currency]

(***************************************************************************)
(* The database.                                                           *)
(***************************************************************************)
\* The transactions row insert_transaction binds: every decimal rounded to
\* 4 places on its way into a REAL column.
TransactionRow(t, ticker_id) ==
    [transaction_no |-> t.transaction_no,
     transaction_date |-> t.date,
     transaction_type |-> t.transaction_type,
     ticker_id |-> ticker_id,
     broker |-> t.broker,
     currency |-> t.currency,
     exchange_rate |-> DecRoundDp(t.exchange_rate, RoundPlaces),
     quantity |-> DecRoundDp(t.quantity, RoundPlaces),
     price |-> DecRoundDp(t.price, RoundPlaces),
     fees |-> DecRoundDp(t.fees, RoundPlaces),
     cumulative_units |-> DecRoundDp(t.position_state.cumulative_units, RoundPlaces),
     cumulative_cost |-> DecRoundDp(t.position_state.cumulative_cost, RoundPlaces),
     cost_of_units_sold |-> DecRoundDp(t.position_state.cost_of_units_sold, RoundPlaces),
     realized_gains |-> DecRoundDp(t.transaction_gains.realized_gains, RoundPlaces),
     dividends_collected |-> DecRoundDp(t.transaction_gains.dividends_collected, RoundPlaces)]

\* The transactions table keeps one row per sequence number: an INSERT OR
\* IGNORE of a number already there (committed, or inserted earlier in the
\* same database transaction) adds nothing.
TransactionNoTaken(rows, pending, no) ==
    \/ \E r \in rows : r.transaction_no = no
    \/ \E k \in 1..Len(pending) : pending[k].transaction_no = no

\* Variant: a plain INSERT, which never ignores the row.
insert_transaction_Plain(rows, pending, t, ticker_id) ==
    Append(pending, TransactionRow(t, ticker_id))

\* insert_transaction: INSERT OR IGNORE into the open database transaction.
insert_transaction(rows, pending, t, ticker_id) ==
    IF TransactionNoTaken(rows, pending, t.transaction_no) THEN pending
    ELSE Append(pending, TransactionRow(t, ticker_id))

SeqToSet(s) == {s[k] : k \in 1..Len(s)}

\* SELECT MAX(transaction_no) FROM transactions, 0 for an empty table.
get_last_transaction_no(rows) ==
    IF rows = {} THEN 0
    ELSE CHOOSE m \in {r.transaction_no : r \in rows} :
            \A r \in rows : r.transaction_no <= m

\* get_existing_forex: transaction_no -> exchange_rate of the persisted rows.
get_existing_forex(rows) ==
    [no \in {r.transaction_no : r \in rows} |->
        (CHOOSE r \in rows : r.transaction_no = no).exchange_rate]

\* SELECT * FROM tickers INNER JOIN assets: symbol -> (ticker, id).
get_existing_tickers(tickers, assets) ==
    LET joined == {t \in tickers : \E a \in assets : a.id = t.asset_id}
    IN  [sym \in {t.symbol : t \in joined} |->
            LET t == CHOOSE x \in joined :
                         /\ x.symbol = sym
                         /\ \A y \in joined : y.symbol = sym => y.id <= x.id
                a == CHOOSE x \in assets : x.id = t.asset_id
            IN  [ticker |-> [symbol |-> t.symbol, name |-> a.name, currency |-> t.currency,
                             exchange |-> t.exchange, last_price |-> t.last_price,
                             api |-> t.api],
                 id |-> t.id]]

NextId(rows) ==
    IF rows = {} THEN 1
    ELSE 1 + (CHOOSE m \in {r.id : r \in rows} : \A r \in rows : r.id <= m)

\* insert_ticker: the asset is looked up by name and inserted when absent,
\* then the ticker row is inserted; [tickers, assets, id] after the commit.
insert_ticker(tickers, assets, ticker) ==
    LET found    == {a \in assets : a.name = ticker.name}
        asset_id == IF found # {} THEN (CHOOSE a \in found : TRUE).id ELSE NextId(assets)
        assets2  == IF found # {} THEN assets
                    ELSE assets \cup {[id |-> asset_id, name |-> ticker.name,
                                       asset_type |-> "Stock"]}
        id       == NextId(tickers)
    IN  [tickers |-> tickers \cup
                       {[id |-> id, symbol |-> ticker.symbol, asset_id |-> asset_id,
                         currency |-> ticker.currency, exchange |-> ticker.exchange,
                         last_price |-> DecRoundDp(ticker.last_price, RoundPlaces),
                         last_price_updated_at |-> 0, api |-> ticker.api]},
         assets |-> assets2,
         id |-> id]

\* Variant: every DELETE is committed as it is made.
truncate_tables_Autocommit(transactions, tickers, assets, clear_assets, fail_at) ==
    [ok |-> fail_at = "none",
     transactions |-> IF fail_at \in {"begin", "transactions"} THEN transactions ELSE {},
     tickers |-> IF clear_assets /\ fail_at \in {"assets", "commit", "none"}
                 THEN {} ELSE tickers,
     assets |-> IF clear_assets /\ fail_at \in {"commit", "none"} THEN {} ELSE assets]

\* truncate_tables: in one database transaction DELETE FROM transactions
\* and, with clear_assets, DELETE FROM tickers and DELETE FROM assets; the
\* statement fail_at (if any) returns its error and the transaction is
\* dropped.
truncate_tables(transactions, tickers, assets, clear_assets, fail_at) ==
    IF fail_at # "none"
    THEN [ok |-> FALSE, transactions |-> transactions, tickers |-> tickers,
          assets |-> assets]
    ELSE [ok |-> TRUE, transactions |-> {},
          tickers |-> IF clear_assets THEN {} ELSE tickers,
          assets |-> IF clear_assets THEN {} ELSE assets]

RECURSIVE SumRealizedGains(_)
SumRealizedGains(rows) ==
    IF rows = {} THEN 0
    ELSE LET r == CHOOSE x \in rows : TRUE
         IN  r.realized_gains + SumRealizedGains(rows \ {r})

RECURSIVE SumDividendsCollected(_)
SumDividendsCollected(rows) ==
    IF rows = {} THEN 0
    ELSE LET r == CHOOSE x \in rows : TRUE
         IN  r.dividends_collected + SumDividendsCollected(rows \ {r})

\* The query of set_holdings: per (ticker_id, broker) the Buy or Sell row
\* with the highest transaction_no, kept when it has units left, joined with
\* its ticker and asset and with the sums over all rows of the pair.
HoldingsQuery(rows, tickers, assets) ==
    LET trades == {r \in rows : r.transaction_type \in {"Buy", "Sell"}}
        latest == {r \in trades :
                      \A o \in trades :
                          (o.ticker_id = r.ticker_id /\ o.broker = r.broker)
                              => o.transaction_no <= r.transaction_no}
    IN  { [name |-> ast.name, asset_type |-> ast.asset_type,
           last_price |-> tcr.last_price, currency |-> tcr.currency,
           exchange_rate |-> tnx.exchange_rate,
           cumulative_units |-> tnx.cumulative_units,
           cumulative_cost |-> tnx.cumulative_cost,
           realized_gains |->
               SumRealizedGains({r \in rows : r.ticker_id = tnx.ticker_id
                                               /\ r.broker = tnx.broker}),
           dividends_collected |->
               SumDividendsCollected({r \in rows : r.ticker_id = tnx.ticker_id
                                                    /\ r.broker = tnx.broker})] :
          <<tnx, tcr, ast>> \in
              {x \in latest \X tickers \X assets :
                  /\ x[1].ticker_id = x[2].id
                  /\ x[2].asset_id = x[3].id
                  /\ x[1].cumulative_units > 0} }

\* cte_transactions: of the Buy and Sell rows of each (ticker_id, broker)
\* the one with the highest transaction_no.
LatestRows(rows) ==
    LET trades == {r \in rows : r.transaction_type \in {"Buy", "Sell"}}
    IN  {r \in trades :
            \A o \in trades :
                (o.ticker_id = r.ticker_id /\ o.broker = r.broker)
                    => o.transaction_no <= r.transaction_no}

\* The rows of the query of set_holdings with the pair each belongs to.
HoldingRows(rows, tickers, assets) ==
    { [ticker_id |-> x[1].ticker_id, broker |-> x[1].broker,
       name |-> x[3].name, last_price |-> x[2].last_price,
       exchange_rate |-> x[1].exchange_rate,
       cumulative_units |-> x[1].cumulative_units,
       cumulative_cost |-> x[1].cumulative_cost,
       realized_gains |->
           SumRealizedGains({r \in rows : r.ticker_id = x[1].ticker_id
                                           /\ r.broker = x[1].broker}),
       dividends_collected |->
           SumDividendsCollected({r \in rows : r.ticker_id = x[1].ticker_id
                                                /\ r.broker = x[1].broker})] :
      x \in {y \in LatestRows(rows) \X tickers \X assets :
                /\ y[1].ticker_id = y[2].id
                /\ y[2].asset_id = y[3].id
                /\ y[1].cumulative_units > 0} }

\* Variant: the total gain leaves the dividends out.
HoldingOf_NoDividends(row) ==
    LET quantity       == row.cumulative_units
        total_cost     == row.cumulative_cost
        adjusted_price == DecMul(row.last_price, DecDiv(Dec(1, 0), row.exchange_rate))
        market_value   == DecRoundDp(DecMul(adjusted_price, quantity), 0)
        unrealized     == market_value - total_cost
    IN  [ticker_id |-> row.ticker_id, broker |-> row.broker,
         asset |-> row.name, quantity |-> quantity, price |-> adjusted_price,
         market_value |-> market_value, total_cost |-> total_cost,
         cost_per_share |-> IF quantity # 0
                            THEN DecRoundDp(DecDiv(total_cost, quantity), RoundPlaces)
                            ELSE 0,
         unrealized_gain |-> unrealized,
         unrealized_gain_percent |->
             IF total_cost # 0
             THEN DecRoundDp(DecMul(DecDiv(unrealized, total_cost), Dec(100, 0)), 2)
             ELSE 0,
         realized_gain |-> row.realized_gains,
         dividends_collected |-> row.dividends_collected,
         total_gain |-> unrealized + row.realized_gains]

\* The Holding set_holdings builds from a row of its query.  (The numbers
\* come back from REAL columns that hold 4 places, which the f64 carries
\* exactly at the sizes here.)
HoldingOf(row) ==
    LET quantity       == row.cumulative_units
        total_cost     == row.cumulative_cost
        adjusted_price == DecMul(row.last_price, DecDiv(Dec(1, 0), row.exchange_rate))
        market_value   == DecRoundDp(DecMul(adjusted_price, quantity), 0)
        unrealized     == market_value - total_cost
    IN  [ticker_id |-> row.ticker_id, broker |-> row.broker,
         asset |-> row.name, quantity |-> quantity, price |-> adjusted_price,
         market_value |-> market_value, total_cost |-> total_cost,
         cost_per_share |-> IF quantity # 0
                            THEN DecRoundDp(DecDiv(total_cost, quantity), RoundPlaces)
                            ELSE 0,
         unrealized_gain |-> unrealized,
         unrealized_gain_percent |->
             IF total_cost # 0
             THEN DecRoundDp(DecMul(DecDiv(unrealized, total_cost), Dec(100, 0)), 2)
             ELSE 0,
         realized_gain |-> row.realized_gains,
         dividends_collected |-> row.dividends_collected,
         total_gain |-> unrealized + row.realized_gains + row.dividends_collected]

\* set_holdings: one Holding per row of the query.
set_holdings(rows, tickers, assets) ==
    {HoldingOf(row) : row \in HoldingRows(rows, tickers, assets)}

(***************************************************************************)
(* Portfolio::import_transactions (src/src/app/portfolio.rs).              *)
(***************************************************************************)
\* What the call returns: Ok, or an error that names the step that failed
\* and the record number or the symbols its message carries.
ImportOk == [ok |-> TRUE, err |-> "none", record |-> 0, symbols |-> {}]

ImportErr(kind, record) ==
    [ok |-> FALSE, err |-> kind, record |-> record, symbols |-> {}]

\* The error of the task of sym, handed on by update_tickers as it is.
ImportTickerErr(sym) ==
    [ok |-> FALSE, err |-> "ticker", record |-> 0, symbols |-> {sym}]

\* The symbols the pre-scan collects: column 3 of every record and every
\* non-empty column 8.
ScanSymbols(file) ==
    {file[k].symbol : k \in 1..Len(file)} \cup
    {file[k].alternative_symbol : k \in {j \in 1..Len(file) : file[j].alternative_symbol # ""}}

\* ticker_map.get(&symbol), else ticker_map.get(&alternative_symbol).
LookupTicker(ticker_map, symbol, alternative_symbol) ==
    IF symbol \in DOMAIN ticker_map THEN [ok |-> TRUE, key |-> symbol]
    ELSE IF alternative_symbol # "" /\ alternative_symbol \in DOMAIN ticker_map
    THEN [ok |-> TRUE, key |-> alternative_symbol]
    ELSE [ok |-> FALSE, key |-> symbol]

\* Variant: the history holds the transactions of every type.
RunHistory_AnyType(transactions, t) ==
    SelectSeq(transactions,
              LAMBDA h : /\ h.ticker_symbol = t.ticker_symbol
                         /\ h.broker = t.broker
                         /\ h.currency = t.currency)

\* The (amount, quantity) history of this run: the Buy and Sell transactions
\* pushed so far with the ticker symbol, broker and currency of the new one.
RunHistory(transactions, t) ==
    SelectSeq(transactions,
              LAMBDA h : /\ h.ticker_symbol = t.ticker_symbol
                         /\ h.transaction_type \in {"Buy", "Sell"}
                         /\ h.broker = t.broker
                         /\ h.currency = t.currency)

\* One iteration of the loop over the records, for record number i (1-based)
\* rec.  ctx holds ticker_map, forex_map, last_transaction_no, the
\* transactions pushed in this run, the committed rows and the rows pending
\* in the open database transaction.  kind is "skip" (continue), "err" (the
\* function returns Err) or "ok" (inserted and pushed).
ProcessRecord(i, rec, ctx, price_lookup_ok, base_lookup_ok, insert_ok) ==
    LET fail(kind) == [kind |-> "err", result |-> ImportErr(kind, i),
                       pending |-> ctx.pending, transactions |-> ctx.transactions]
    IN
    IF rec.bad \in {"transaction_no", "date"} THEN fail("parse")
    ELSE IF ctx.last_transaction_no # 0 /\ rec.transaction_no <= ctx.last_transaction_no
    THEN [kind |-> "skip", result |-> ImportOk,
          pending |-> ctx.pending, transactions |-> ctx.transactions]
    ELSE IF rec.bad \in {"transaction_type", "quantity", "price", "fees"} THEN fail("parse")
    ELSE
    LET found == LookupTicker(ctx.ticker_map, rec.symbol, rec.alternative_symbol)
    IN
    IF ~found.ok THEN fail("symbol")
    ELSE
    LET entry    == ctx.ticker_map[found.key]
        currency == entry.ticker.currency
        txcur    == IF rec.transaction_currency = "" THEN currency
                    ELSE rec.transaction_currency
        x_rate   == IF txcur # currency
                    THEN get_exchange_rate(currency, txcur, price_lookup_ok)
                    ELSE [ok |-> TRUE, rate |-> Dec(1, 0)]
        price    == IF txcur # currency THEN DecMul(rec.price, x_rate.rate) ELSE rec.price
        base     == IF rec.transaction_no \in DOMAIN ctx.forex_map
                    THEN [ok |-> TRUE, rate |-> ctx.forex_map[rec.transaction_no]]
                    ELSE get_exchange_rate(currency, BaseCurrency, base_lookup_ok)
    IN
    IF ~x_rate.ok \/ ~base.ok THEN fail("exchange rate")
    ELSE
    LET t0 == [transaction_no |-> rec.transaction_no, date |-> rec.date,
               transaction_type |-> rec.transaction_type,
               ticker_symbol |-> entry.ticker.symbol, broker |-> rec.broker,
               currency |-> currency, exchange_rate |-> base.rate,
               quantity |-> rec.quantity, price |-> price, fees |-> rec.fees]
        history    == RunHistory(ctx.transactions, t0)
        amounts    == Append([k \in 1..Len(history) |-> get_amount(history[k])],
                             get_amount(t0))
        quantities == Append([k \in 1..Len(history) |-> get_quantity(history[k])],
                             get_quantity(t0))
        calc       == calculate_position_state(amounts, quantities)
    IN
    IF ~calc.ok THEN fail("position state")
    ELSE
    LET gains == calculate_transaction_gains(t0, calc.state)
        t     == [transaction_no |-> t0.transaction_no, date |-> t0.date,
                  transaction_type |-> t0.transaction_type,
                  ticker_symbol |-> t0.ticker_symbol, broker |-> t0.broker,
                  currency |-> t0.currency, exchange_rate |-> t0.exchange_rate,
                  quantity |-> t0.quantity, price |-> t0.price, fees |-> t0.fees,
                  position_state |-> calc.state, transaction_gains |-> gains]
    IN
    IF ~insert_ok THEN fail("insert")
    ELSE [kind |-> "ok", result |-> ImportOk,
          pending |-> insert_transaction(ctx.rows, ctx.pending, t, entry.id),
          transactions |-> Append(ctx.transactions, t)]

(***************************************************************************)
(* State.                                                                  *)
(*   calc_*   the inputs and the result of one direct call of              *)
(*            calculate_position_state;                                    *)
(*   gains_call  the inputs and the result of the last direct call of      *)
(*            calculate_transaction_gains;                                 *)
(*   prc_*    the locals of the running (or last) update_prices call and   *)
(*            the tasks it spawned; clock is the database's DATETIME('now');*)
(*   csv      the records of the CSV file on disk, csv_header the number   *)
(*            of columns of its header;                                    *)
(*   db_*     the committed rows of the three tables;                      *)
(*   imp_*    the locals of the running (or last) import_transactions call *)
(*            and the ticker tasks it spawned;                             *)
(*   app_pc, show_api_selector, ... app_calls                              *)
(*            the App: whether its key loop runs, the PopupManager's two   *)
(*            flags and error, the selections of the table and of the two  *)
(*            lists, the Portfolio's default provider and the number of    *)
(*            its holdings; the key pressed last, the handler that took it *)
(*            and the Portfolio calls that handler made;                   *)
(*   reset_calls, reset_last                                               *)
(*            the calls of truncate_tables made, and the argument and the  *)
(*            failing statement (if any) of the last one;                  *)
(*   find_call  the responses and the result of the last direct call of    *)
(*            find_ticker;                                                 *)
(*   holdings the Portfolio's holdings, and whether set_holdings has set   *)
(*            them; holdings_loads counts the calls of set_holdings and    *)
(*            holdings_result is what the last one returned;               *)
(*   tk_*     update_tickers called again while tasks of its earlier calls *)
(*            run: tk_tasks maps <<call, symbol>> to the task's state;     *)
(*   at_begin, last_csv, last_ok, imp_repeat                               *)
(*            history: the tables when the call began, the file and the    *)
(*            outcome of the previous call, and whether this call imports  *)
(*            the file the previous call imported successfully.            *)
(***************************************************************************)
VARIABLES calc_amounts, calc_quantities, calc_done, calc_result,
          csv, csv_header, db_transactions, db_tickers, db_assets,
          imp_pc, imp_handles, imp_tasks, imp_joined, imp_ticker_map,
          imp_forex_map, imp_last_no, imp_i, imp_pending, imp_transactions,
          imp_result, at_begin, last_csv, last_ok, imp_repeat,
          gains_call,
          prc_pc, prc_handles, prc_tasks, prc_joined, prc_errors, prc_result,
          prc_before, prc_runs, clock,
          tk_pc, tk_handles, tk_tasks, tk_joined, tk_result, tk_calls,
          holdings, holdings_set, holdings_loads, holdings_result,
          find_call, reset_calls, reset_last,
          app_pc, show_api_selector, show_database_reset, popup_error,
          selection_mode, table_state, default_api_state, default_reset_state,
          default_api, app_holdings, app_key, app_route, app_calls

calcVars == <<calc_amounts, calc_quantities, calc_done, calc_result>>

dbVars == <<db_transactions, db_tickers, db_assets>>

impVars == <<imp_pc, imp_handles, imp_tasks, imp_joined, imp_ticker_map,
             imp_forex_map, imp_last_no, imp_i, imp_pending, imp_transactions,
             imp_result, at_begin, last_csv, last_ok, imp_repeat>>

gainsVars == <<gains_call>>

prcVars == <<prc_pc, prc_handles, prc_tasks, prc_joined, prc_errors, prc_result,
            prc_before, prc_runs, clock>>

tkVars == <<tk_pc, tk_handles, tk_tasks, tk_joined, tk_result, tk_calls>>

holdVars == <<holdings, holdings_set, holdings_loads, holdings_result>>

findVars == <<find_call>>

resetVars == <<reset_calls, reset_last>>

appVars == <<app_pc, show_api_selector, show_database_reset, popup_error,
            selection_mode, table_state, default_api_state, default_reset_state,
            default_api, app_holdings, app_key, app_route, app_calls>>

vars == <<calcVars, gainsVars, appVars, resetVars, findVars, holdVars, prcVars, tkVars, csv, csv_header, dbVars,
          impVars>>

MaxCalcLen == 4

MaxRows == 3

\* (amount, quantity) pairs offered to the calculator: buys (amount < 0,
\* quantity > 0) at different unit costs, one with a non-terminating unit
\* cost, fractional ones; sells (amount > 0, quantity < 0); a zero quantity;
\* a sell without proceeds.
CalcBuys ==
    { <<Dec(0 - 10, 0), Dec(1, 0)>>, <<Dec(0 - 20, 0), Dec(1, 0)>>,
      <<Dec(0 - 30, 0), Dec(2, 0)>>, <<Dec(0 - 20, 0), Dec(3, 0)>>,
      <<Dec(0 - 15, 0), Dec(15, 1)>>, <<Dec(0 - 10, 0), Dec(100004, 5)>> }

CalcSells ==
    { <<Dec(12, 0), Dec(0 - 1, 0)>>, <<Dec(24, 0), Dec(0 - 2, 0)>>,
      <<Dec(36, 0), Dec(0 - 3, 0)>>, <<Dec(6, 0), Dec(0 - 5, 1)>>,
      <<Dec(18, 0), Dec(0 - 15, 1)>> }

CalcElems == CalcBuys \cup CalcSells \cup
             { <<Dec(0 - 10, 0), 0>>, <<0, Dec(0 - 1, 0)>> }

\* The records a ledger line can hold, for sequence number no: a buy, a
\* sell, a dividend, a buy of zero units, a buy of a USD instrument, a buy
\* paid in another currency than the instrument's (with an alternative
\* symbol), and a line whose date does not parse.
CsvRecords(no) ==
    { CsvRecord(no, "none", "Buy",  "AAA", Dec(2, 0), Dec(10, 0), 0, "", ""),
      CsvRecord(no, "none", "Sell", "AAA", Dec(1, 0), Dec(30, 0), Dec(1, 0), "", ""),
      CsvRecord(no, "none", "Div",  "AAA", Dec(2, 0), Dec(1, 0), 0, "", ""),
      CsvRecord(no, "none", "Buy",  "AAA", 0, Dec(10, 0), 0, "", ""),
      CsvRecord(no, "none", "Buy",  "BBB", Dec(1, 0), Dec(10, 0), 0, "", ""),
      CsvRecord(no, "none", "Buy",  "AAA", Dec(1, 0), Dec(10, 0), 0, "BBB", "USD"),
      CsvRecord(no, "date", "Buy",  "AAA", Dec(2, 0), Dec(10, 0), 0, "", "") }

\* The records that repeat the sequence number of the line before them: a
\* buy, a sell, and a line whose quantity does not parse.
RepeatRecords(no) ==
    { CsvRecord(no, "none", "Buy",  "AAA", Dec(2, 0), Dec(10, 0), 0, "", ""),
      CsvRecord(no, "none", "Sell", "AAA", Dec(1, 0), Dec(30, 0), Dec(1, 0), "", ""),
      CsvRecord(no, "quantity", "Buy", "AAA", Dec(2, 0), Dec(10, 0), 0, "", "") }

\* Sequence numbers are handed out in file order: a line takes the number
\* after the one before it (the first line 1), or repeats it (the first
\* line 0).
NextRecords(file) ==
    LET last == IF file = <<>> THEN 0 ELSE file[Len(file)].transaction_no
    IN  CsvRecords(last + 1) \cup RepeatRecords(last)

\* The transactions and position states calculate_transaction_gains is
\* called with directly.
GainsTransactions ==
    [transaction_type : TransactionTypes,
     quantity : {Dec(1, 0), Dec(2, 0), Dec(15, 1)},
     price : {Dec(10, 0), Dec(30, 0), Dec(125, 2)},
     exchange_rate : {Dec(1, 0), Dec(5, 1)},
     fees : {0, Dec(1, 0)}]

GainsStates ==
    {PositionState(Dec(1, 0), Dec(10, 0), sold) : sold \in {0, Dec(10, 0), Dec(40, 0)}}

NoGainsCall ==
    [done |-> FALSE,
     transaction |-> [transaction_type |-> "Buy", quantity |-> 0, price |-> 0,
                      exchange_rate |-> 0, fees |-> 0],
     position_state |-> PositionState(0, 0, 0),
     gains |-> [realized_gains |-> 0, dividends_collected |-> 0]]

\* The symbols there are tickers of when prices are refreshed, the calls
\* of update_prices in a run, and the price the quotes carry during each.
PriceSymbols == Symbols \cup {"CCC"}

MaxRefreshes == 2

PriceQuote(run) == IF run = 1 THEN Dec(15, 0) ELSE Dec(155, 1) + Dec(run, 0)

PricesOk == [ok |-> TRUE, errors |-> <<>>]

PricesErr(errors) == [ok |-> FALSE, errors |-> errors]

NoPriceTasks == [id \in {} |-> [symbol |-> "", api |-> "", st |-> "none", price |-> 0,
                                written_at |-> 0, lookups |-> <<>>]]

\* ApiProvider::parse_str: the tags of the providers update_prices matches on.
parse_str(api_str) == [ok |-> api_str \in {"Av", "Fmp"}, api |-> api_str]

\* A provider tag of a build with other providers (api/marketstack_dto.rs).
ForeignApi == "Marketstack"

\* Calls of update_tickers that follow one another while tasks of earlier
\* calls may still run.
MaxTickerCalls == 3

\* The answers a provider may give to a search: arrays of up to
\* MaxSearchItems items.
MaxSearchItems == 2

SearchItems == {"bad", "AAA", "BBB"}

SearchResponses ==
    {[kind |-> "failed", items |-> <<>>], [kind |-> "object", items |-> <<>>]} \cup
    {[kind |-> "array", items |-> items] :
        items \in UNION {[1..n -> SearchItems] : n \in 0..MaxSearchItems}}

NoFindCall ==
    [done |-> FALSE,
     responses |-> [provider \in {"Fmp", "Av"} |-> [kind |-> "failed", items |-> <<>>]],
     result |-> [ok |-> FALSE, ticker |-> NoTicker, consulted |-> <<>>]]

NoTickerTasks == [k \in {} |-> [st |-> "none", id |-> 0]]

NoTasks == [sym \in {} |-> [st |-> "none", id |-> 0]]

NoMap == [sym \in {} |-> 0]

\* Calls of truncate_tables.
MaxResets == 2

\* TableState and ListState: no row selected.
NoneSelected == 0 - 1

\* The holdings the table of the App shows at most.
MaxHoldings == 3

\* ApiProvider::iter().len()
NumProviders == 2

\* The entries of the reset popup: cancel, transactions, everything.
NumResetChoices == 3

Keys == {"q", "Enter", "Esc", "F4", "F5", "F8", "F12", "Down", "Up", "other"}

\* Calls of set_holdings, and the lines of the files imported between them.
MaxLoads == 2

MaxReloadRows == 2

\* if headers.len() < 10 { return Err(..) }
MinColumns == 10

\* The header widths a file is given: one column short, or all ten.
HeaderWidths == {MinColumns - 1, MinColumns}

Init ==
    /\ csv_header = MinColumns
    /\ calc_amounts = <<>>
    /\ calc_quantities = <<>>
    /\ calc_done = FALSE
    /\ calc_result = CalcErr("not run")
    /\ gains_call = NoGainsCall
    /\ prc_pc = "idle"
    /\ prc_handles = <<>>
    /\ prc_tasks = NoPriceTasks
    /\ prc_joined = 0
    /\ prc_errors = <<>>
    /\ prc_result = PricesOk
    /\ prc_before = {}
    /\ prc_runs = 0
    /\ clock = 0
    /\ tk_pc = "idle"
    /\ tk_handles = <<>>
    /\ tk_tasks = NoTickerTasks
    /\ tk_joined = 0
    /\ tk_result = ImportOk
    /\ tk_calls = 0
    /\ holdings = {}
    /\ holdings_set = FALSE
    /\ holdings_loads = 0
    /\ holdings_result = "none"
    /\ find_call = NoFindCall
    /\ reset_calls = 0
    /\ reset_last = [clear_assets |-> FALSE, fail_at |-> "none"]
    /\ app_pc = "running"
    /\ show_api_selector = FALSE
    /\ show_database_reset = FALSE
    /\ popup_error = "none"
    /\ selection_mode = FALSE
    /\ table_state = NoneSelected
    /\ default_api_state = 0
    /\ default_reset_state = 0
    /\ default_api = 0
    /\ app_holdings = 0
    /\ app_key = "none"
    /\ app_route = "none"
    /\ app_calls = <<>>
    /\ csv = <<>>
    /\ db_transactions = {}
    /\ db_tickers = {}
    /\ db_assets = {}
    /\ imp_pc = "idle"
    /\ imp_handles = <<>>
    /\ imp_tasks = NoTasks
    /\ imp_joined = 0
    /\ imp_ticker_map = NoMap
    /\ imp_forex_map = NoMap
    /\ imp_last_no = 0
    /\ imp_i = 0
    /\ imp_pending = <<>>
    /\ imp_transactions = <<>>
    /\ imp_result = ImportOk
    /\ at_begin = [transactions |-> {}, tickers |-> {}, assets |-> {},
                   columns |-> MinColumns]
    /\ last_csv = <<>>
    /\ last_ok = FALSE
    /\ imp_repeat = FALSE

(***************************************************************************)
(* Direct calls of the calculator.                                         *)
(***************************************************************************)
\* The caller appends one (amount, quantity) pair to the two vectors.
CalcPush(e) ==
    /\ ~calc_done
    /\ Len(calc_amounts) = Len(calc_quantities)
    /\ Len(calc_amounts) < MaxCalcLen
    /\ calc_amounts' = Append(calc_amounts, e[1])
    /\ calc_quantities' = Append(calc_quantities, e[2])
    /\ UNCHANGED <<calc_done, calc_result, gainsVars, resetVars, appVars, findVars, holdVars, tkVars, prcVars, csv, csv_header,
                   dbVars, impVars>>

\* The caller passes one amount more than it passes quantities.
CalcPushAmountOnly(e) ==
    /\ ~calc_done
    /\ Len(calc_amounts) = Len(calc_quantities)
    /\ Len(calc_amounts) < MaxCalcLen
    /\ calc_amounts' = Append(calc_amounts, e[1])
    /\ UNCHANGED <<calc_quantities, calc_done, calc_result, gainsVars, resetVars, appVars, findVars, holdVars, tkVars, prcVars, csv, csv_header,
                   dbVars, impVars>>

\* The call itself.
CalcRun ==
    /\ ~calc_done
    /\ calc_done' = TRUE
    /\ calc_result' = calculate_position_state(calc_amounts, calc_quantities)
    /\ UNCHANGED <<calc_amounts, calc_quantities, gainsVars, resetVars, appVars, findVars, holdVars, tkVars, prcVars, csv, csv_header,
                   dbVars, impVars>>

CalcNext ==
    \/ \E e \in CalcElems : CalcPush(e)
    \/ \E e \in CalcElems : CalcPushAmountOnly(e)
    \/ CalcRun

SpecCalc == Init /\ [][CalcNext]_vars

(***************************************************************************)
(* Direct calls of calculate_transaction_gains.                            *)
(***************************************************************************)
GainsCall(t, ps) ==
    /\ gains_call' = [done |-> TRUE, transaction |-> t, position_state |-> ps,
                      gains |-> calculate_transaction_gains(t, ps)]
    /\ UNCHANGED <<calcVars, appVars, resetVars, findVars, holdVars, prcVars, tkVars, csv, csv_header, dbVars, impVars>>

GainsNext == \E t \in GainsTransactions, ps \in GainsStates : GainsCall(t, ps)

SpecGains == Init /\ [][GainsNext]_vars

(***************************************************************************)
(* find_ticker called directly.                                            *)
(***************************************************************************)
FindCall(responses) ==
    /\ find_call' = [done |-> TRUE, responses |-> responses,
                     result |-> find_ticker(responses)]
    /\ UNCHANGED <<calcVars, gainsVars, resetVars, appVars, holdVars, prcVars, tkVars, csv, csv_header, dbVars, impVars>>

FindNext == \E responses \in [{"Fmp", "Av"} -> SearchResponses] : FindCall(responses)

SpecFind == Init /\ [][FindNext]_vars

(***************************************************************************)
(* The App (src/src/app/app.rs): one action per key handler.  The calls of *)
(* the Portfolio are taken by their outcome, and the holdings by their     *)
(* number.                                                                 *)
(***************************************************************************)
\* navigate_up: the entry before the selected one, the last from the first,
\* the first when none is selected.
navigate_up(selected, list_len) ==
    IF selected = NoneSelected THEN 0
    ELSE IF selected = 0 THEN list_len - 1
    ELSE selected - 1

\* Variant: the selection moves on without looking at the length.
navigate_down_NoWrap(selected, list_len) ==
    IF selected = NoneSelected THEN 0 ELSE selected + 1

\* navigate_down: the entry after the selected one, the first from the
\* last, the first when none is selected.
navigate_down(selected, list_len) ==
    IF selected = NoneSelected THEN 0
    ELSE IF selected >= list_len - 1 THEN 0
    ELSE selected + 1

\* A Portfolio call with its outcome.
Call(name, ok) == [call |-> name, ok |-> ok]

\* What set_holdings leaves: the holdings of its query, or on an error
\* those there were.
HoldingsAfter(ok, n) == IF ok THEN n ELSE app_holdings

\* The key loop takes a key: which handler it goes to.
Taken(key, route) ==
    /\ app_pc = "running"
    /\ app_key' = key
    /\ app_route' = route

OtherFamilies ==
    UNCHANGED <<calcVars, gainsVars, resetVars, findVars, holdVars, prcVars, tkVars, csv, csv_header,
                dbVars, impVars>>

\* handle_api_popup_keys
handle_api_popup_keys(key) ==
    /\ show_api_selector
    /\ Taken(key, "api popup")
    /\ selection_mode' = FALSE
    /\ table_state' = NoneSelected
    /\ show_api_selector' = IF key \in {"Esc", "Enter"} THEN FALSE ELSE TRUE
    /\ default_api_state' =
          IF key = "Down" THEN navigate_down(default_api_state, NumProviders)
          ELSE IF key = "Up" THEN navigate_up(default_api_state, NumProviders)
          ELSE default_api_state
    /\ default_api' = IF key = "Enter" THEN default_api_state ELSE default_api
    /\ app_calls' = <<>>
    /\ UNCHANGED <<app_pc, show_database_reset, popup_error, default_reset_state,
                   app_holdings>>
    /\ OtherFamilies

\* handle_reset_popup_keys: on Enter the selected entry; a reset or a
\* set_holdings that fails ends the key loop with its error.
handle_reset_popup_keys(key, reset_ok, holdings_ok) ==
    /\ ~show_api_selector
    /\ show_database_reset
    /\ Taken(key, "reset popup")
    /\ table_state' = NoneSelected
    /\ default_reset_state' =
          IF key = "Down" THEN navigate_down(default_reset_state, NumResetChoices)
          ELSE IF key = "Up" THEN navigate_up(default_reset_state, NumResetChoices)
          ELSE default_reset_state
    /\ IF key = "Enter" /\ default_reset_state \in {1, 2}
       THEN /\ app_calls' = IF reset_ok
                            THEN <<Call("reset", TRUE), Call("set_holdings", holdings_ok)>>
                            ELSE <<Call("reset", FALSE)>>
            /\ IF reset_ok /\ holdings_ok
               THEN /\ app_holdings' = 0
                    /\ show_database_reset' = FALSE
                    /\ selection_mode' = TRUE
                    /\ UNCHANGED app_pc
               ELSE /\ app_pc' = "failed"
                    /\ selection_mode' = FALSE
                    /\ UNCHANGED <<app_holdings, show_database_reset>>
       ELSE /\ reset_ok /\ holdings_ok
            /\ app_calls' = <<>>
            /\ show_database_reset' =
                  IF key = "Esc" \/ (key = "Enter" /\ default_reset_state = 0)
                  THEN FALSE ELSE TRUE
            /\ selection_mode' = (key = "Enter" /\ default_reset_state = 0)
            /\ UNCHANGED <<app_pc, app_holdings>>
    /\ UNCHANGED <<show_api_selector, popup_error, default_api_state, default_api>>
    /\ OtherFamilies

NoPopup == ~show_api_selector /\ ~show_database_reset

\* KeyCode::Char('q') => return Ok(())
Quit ==
    /\ NoPopup
    /\ Taken("q", "main")
    /\ app_pc' = "quit"
    /\ app_calls' = <<>>
    /\ UNCHANGED <<show_api_selector, show_database_reset, popup_error, selection_mode,
                   table_state, default_api_state, default_reset_state, default_api,
                   app_holdings>>
    /\ OtherFamilies

\* KeyCode::Enter | KeyCode::Esc: the error is dismissed, or Esc clears the
\* selection.
EnterOrEsc(key) ==
    /\ NoPopup
    /\ key \in {"Enter", "Esc"}
    /\ Taken(key, "main")
    /\ app_calls' = <<>>
    /\ IF popup_error # "none"
       THEN /\ popup_error' = "none"
            /\ UNCHANGED <<selection_mode, table_state>>
       ELSE /\ UNCHANGED popup_error
            /\ IF key = "Esc"
               THEN selection_mode' = FALSE /\ table_state' = NoneSelected
               ELSE UNCHANGED <<selection_mode, table_state>>
    /\ UNCHANGED <<app_pc, show_api_selector, show_database_reset, default_api_state,
                   default_reset_state, default_api, app_holdings>>
    /\ OtherFamilies

\* App::import_transactions (F4): the import, the price refresh and the
\* reload of the holdings, then the error of the first of them that failed.
import_transactions(import_ok, update_ok, holdings_ok, n) ==
    /\ NoPopup
    /\ Taken("F4", "main")
    /\ selection_mode' = FALSE
    /\ table_state' = NoneSelected
    /\ app_calls' = <<Call("import_transactions", import_ok),
                      Call("update_prices", update_ok),
                      Call("set_holdings", holdings_ok)>>
    /\ app_holdings' = HoldingsAfter(holdings_ok, n)
    /\ popup_error' = IF ~import_ok THEN "import"
                      ELSE IF ~update_ok THEN "prices"
                      ELSE IF ~holdings_ok THEN "holdings"
                      ELSE popup_error
    /\ UNCHANGED <<app_pc, show_api_selector, show_database_reset, default_api_state,
                   default_reset_state, default_api>>
    /\ OtherFamilies

\* App::update_prices (F5)
update_prices(update_ok, holdings_ok, n) ==
    /\ NoPopup
    /\ Taken("F5", "main")
    /\ selection_mode' = FALSE
    /\ table_state' = NoneSelected
    /\ app_calls' = <<Call("update_prices", update_ok),
                      Call("set_holdings", holdings_ok)>>
    /\ app_holdings' = HoldingsAfter(holdings_ok, n)
    /\ popup_error' = IF ~update_ok THEN "prices"
                      ELSE IF ~holdings_ok THEN "holdings"
                      ELSE popup_error
    /\ UNCHANGED <<app_pc, show_api_selector, show_database_reset, default_api_state,
                   default_reset_state, default_api>>
    /\ OtherFamilies

\* Variant: a popup is opened whatever is shown already.
OpenPopup_Always(key) ==
    /\ key \in {"F8", "F12"}
    /\ Taken(key, "main")
    /\ selection_mode' = FALSE
    /\ table_state' = NoneSelected
    /\ app_calls' = <<>>
    /\ show_api_selector' = IF key = "F8" THEN TRUE ELSE show_api_selector
    /\ show_database_reset' = IF key = "F12" THEN TRUE ELSE show_database_reset
    /\ UNCHANGED <<app_pc, popup_error, default_api_state, default_reset_state,
                   default_api, app_holdings>>
    /\ OtherFamilies

\* KeyCode::F(8), KeyCode::F(12): the selection is cleared and the popup
\* of the key opened.
OpenPopup(key) ==
    /\ NoPopup
    /\ key \in {"F8", "F12"}
    /\ Taken(key, "main")
    /\ selection_mode' = FALSE
    /\ table_state' = NoneSelected
    /\ app_calls' = <<>>
    /\ show_api_selector' = IF key = "F8" THEN TRUE ELSE show_api_selector
    /\ show_database_reset' = IF key = "F12" THEN TRUE ELSE show_database_reset
    /\ UNCHANGED <<app_pc, popup_error, default_api_state, default_reset_state,
                   default_api, app_holdings>>
    /\ OtherFamilies

\* handle_table_navigation
handle_table_navigation(key) ==
    /\ NoPopup
    /\ key \in {"Down", "Up"}
    /\ Taken(key, "main")
    /\ selection_mode' = TRUE
    /\ app_calls' = <<>>
    /\ table_state' =
          IF app_holdings = 0 THEN table_state
          ELSE IF key = "Down" THEN navigate_down(table_state, app_holdings)
          ELSE navigate_up(table_state, app_holdings)
    /\ UNCHANGED <<app_pc, show_api_selector, show_database_reset, popup_error,
                   default_api_state, default_reset_state, default_api, app_holdings>>
    /\ OtherFamilies

\* _ => {}
OtherKey ==
    /\ NoPopup
    /\ Taken("other", "main")
    /\ app_calls' = <<>>
    /\ UNCHANGED <<app_pc, show_api_selector, show_database_reset, popup_error,
                   selection_mode, table_state, default_api_state, default_reset_state,
                   default_api, app_holdings>>
    /\ OtherFamilies

AppNext ==
    \/ \E key \in Keys : handle_api_popup_keys(key)
    \/ \E key \in Keys, reset_ok \in BOOLEAN, holdings_ok \in BOOLEAN :
           handle_reset_popup_keys(key, reset_ok, holdings_ok)
    \/ Quit
    \/ \E key \in Keys : EnterOrEsc(key)
    \/ \E import_ok \in BOOLEAN, update_ok \in BOOLEAN, holdings_ok \in BOOLEAN,
          n \in 0..MaxHoldings : import_transactions(import_ok, update_ok, holdings_ok, n)
    \/ \E update_ok \in BOOLEAN, holdings_ok \in BOOLEAN, n \in 0..MaxHoldings :
           update_prices(update_ok, holdings_ok, n)
    \/ \E key \in Keys : OpenPopup(key)
    \/ \E key \in Keys : handle_table_navigation(key)
    \/ OtherKey

SpecApp == Init /\ [][AppNext]_vars

(***************************************************************************)
(* The ledger file and import_transactions.                                *)
(***************************************************************************)
Idle == imp_pc \in {"idle", "done"}

\* The symbols whose task, spawned by the running or the last call, has not
\* finished.  (Here a call begins when the tasks of the call before it have
\* finished; calls that overlap such tasks are the subject of SpecTickers.)
RunningTasks == {sym \in DOMAIN imp_tasks : imp_tasks[sym].st = "running"}

\* The user adds a line to the CSV file.
AppendRecord(rec) ==
    /\ Idle
    /\ Len(csv) < MaxRows
    /\ csv' = Append(csv, rec)
    /\ UNCHANGED <<csv_header, calcVars, gainsVars, resetVars, appVars, findVars, holdVars, tkVars, prcVars, dbVars, impVars>>

\* The call returns: the open database transaction, if any, is dropped
\* with the other locals.  The spawned tasks are not.
Return(result) ==
    /\ imp_pc' = "done"
    /\ imp_result' = result
    /\ imp_handles' = <<>>
    /\ imp_joined' = 0
    /\ imp_ticker_map' = NoMap
    /\ imp_forex_map' = NoMap
    /\ imp_last_no' = 0
    /\ imp_i' = 0
    /\ imp_pending' = <<>>
    /\ imp_transactions' = <<>>
    /\ last_csv' = csv
    /\ last_ok' = result.ok

\* The user gives the file a header of another width.
SetHeader(n) ==
    /\ Idle
    /\ n # csv_header
    /\ csv_header' = n
    /\ UNCHANGED <<calcVars, gainsVars, resetVars, appVars, findVars, holdVars, tkVars, prcVars, csv, dbVars, impVars>>

\* Variant: the width of the header is not looked at.
ImportBegin_AnyHeader(order) ==
    /\ Idle
    /\ RunningTasks = {}
    /\ LET known   == get_existing_tickers(db_tickers, db_assets)
           unknown == ScanSymbols(csv) \ DOMAIN known
       IN  /\ Len(order) = Cardinality(unknown)
           /\ SeqToSet(order) = unknown
           /\ imp_ticker_map' = known
           /\ imp_handles' = order
           /\ imp_tasks' = [sym \in unknown |-> [st |-> "running", id |-> 0]]
    /\ imp_pc' = "resolve"
    /\ imp_joined' = 0
    /\ imp_forex_map' = NoMap
    /\ imp_last_no' = 0
    /\ imp_i' = 0
    /\ imp_pending' = <<>>
    /\ imp_transactions' = <<>>
    /\ imp_result' = ImportOk
    /\ at_begin' = [transactions |-> db_transactions, tickers |-> db_tickers,
                  assets |-> db_assets, columns |-> csv_header]
    /\ imp_repeat' = (last_ok /\ last_csv = csv)
    /\ UNCHANGED <<calcVars, gainsVars, resetVars, appVars, findVars, holdVars, tkVars, prcVars, csv, csv_header, dbVars, last_csv, last_ok>>

\* Variant: a task is spawned for every symbol of the file, known or not.
ImportBegin_KnownToo(order) ==
    /\ Idle
    /\ RunningTasks = {}
    /\ IF csv_header < MinColumns
       THEN /\ order = <<>>
            /\ imp_tasks' = NoTasks
            /\ Return(ImportErr("header", 0))
       ELSE /\ LET known   == get_existing_tickers(db_tickers, db_assets)
                   unknown == ScanSymbols(csv)
               IN  /\ Len(order) = Cardinality(unknown)
                   /\ SeqToSet(order) = unknown
                   /\ imp_ticker_map' = known
                   /\ imp_handles' = order
                   /\ imp_tasks' = [sym \in unknown |-> [st |-> "running", id |-> 0]]
            /\ imp_pc' = "resolve"
            /\ imp_joined' = 0
            /\ imp_forex_map' = NoMap
            /\ imp_last_no' = 0
            /\ imp_i' = 0
            /\ imp_pending' = <<>>
            /\ imp_transactions' = <<>>
            /\ imp_result' = ImportOk
            /\ UNCHANGED <<last_csv, last_ok>>
    /\ at_begin' = [transactions |-> db_transactions, tickers |-> db_tickers,
                  assets |-> db_assets, columns |-> csv_header]
    /\ imp_repeat' = (last_ok /\ last_csv = csv)
    /\ UNCHANGED <<calcVars, gainsVars, resetVars, appVars, findVars, holdVars, tkVars, prcVars, csv, csv_header, dbVars>>

\* The call up to the spawn loop of update_tickers: the pre-scan, the known
\* tickers, one task per symbol that is not known, in the order the symbol
\* set happens to be iterated in.
ImportBegin(order) ==
    /\ Idle
    /\ RunningTasks = {}
    /\ IF csv_header < MinColumns
       THEN /\ order = <<>>
            /\ imp_tasks' = NoTasks
            /\ Return(ImportErr("header", 0))
       ELSE /\ LET known   == get_existing_tickers(db_tickers, db_assets)
                   unknown == ScanSymbols(csv) \ DOMAIN known
               IN  /\ Len(order) = Cardinality(unknown)
                   /\ SeqToSet(order) = unknown
                   /\ imp_ticker_map' = known
                   /\ imp_handles' = order
                   /\ imp_tasks' = [sym \in unknown |-> [st |-> "running", id |-> 0]]
            /\ imp_pc' = "resolve"
            /\ imp_joined' = 0
            /\ imp_forex_map' = NoMap
            /\ imp_last_no' = 0
            /\ imp_i' = 0
            /\ imp_pending' = <<>>
            /\ imp_transactions' = <<>>
            /\ imp_result' = ImportOk
            /\ UNCHANGED <<last_csv, last_ok>>
    /\ at_begin' = [transactions |-> db_transactions, tickers |-> db_tickers,
                  assets |-> db_assets, columns |-> csv_header]
    /\ imp_repeat' = (last_ok /\ last_csv = csv)
    /\ UNCHANGED <<calcVars, gainsVars, resetVars, appVars, findVars, holdVars, tkVars, prcVars, csv, csv_header, dbVars>>

\* A spawned task: find_ticker, then insert_ticker in a database
\* transaction of its own.  Its commit is its only effect on the tables.
TaskRun(sym, outcome) ==
    /\ sym \in DOMAIN imp_tasks
    /\ imp_tasks[sym].st = "running"
    /\ IF outcome = "commit"
       THEN LET ins == insert_ticker(db_tickers, db_assets, TickerOf(sym))
            IN  /\ db_tickers' = ins.tickers
                /\ db_assets' = ins.assets
                /\ imp_tasks' = [imp_tasks EXCEPT ![sym] = [st |-> "ok", id |-> ins.id]]
       ELSE /\ imp_tasks' = [imp_tasks EXCEPT ![sym] = [st |-> "failed", id |-> 0]]
            /\ UNCHANGED <<db_tickers, db_assets>>
    /\ UNCHANGED <<calcVars, gainsVars, resetVars, appVars, findVars, holdVars, tkVars, prcVars, csv, csv_header, db_transactions, imp_pc, imp_handles, imp_joined,
                   imp_ticker_map, imp_forex_map, imp_last_no, imp_i, imp_pending,
                   imp_transactions, imp_result, at_begin, last_csv, last_ok, imp_repeat>>

\* Variant: the Err of a task is passed over and the next handle awaited.
ImportJoin_ErrSkipped ==
    /\ imp_pc = "resolve"
    /\ imp_joined < Len(imp_handles)
    /\ LET sym == imp_handles[imp_joined + 1]
       IN  /\ imp_tasks[sym].st # "running"
           /\ imp_ticker_map' =
                 IF imp_tasks[sym].st = "ok"
                 THEN [k \in DOMAIN imp_ticker_map \cup {sym} |->
                         IF k = sym THEN [ticker |-> TickerOf(sym), id |-> imp_tasks[sym].id]
                         ELSE imp_ticker_map[k]]
                 ELSE imp_ticker_map
           /\ imp_joined' = imp_joined + 1
    /\ UNCHANGED <<imp_pc, imp_result, imp_handles, imp_forex_map, imp_last_no, imp_i,
                   imp_pending, imp_transactions, last_csv, last_ok>>
    /\ UNCHANGED <<calcVars, gainsVars, resetVars, appVars, findVars, holdVars, tkVars, prcVars, csv, csv_header, dbVars, imp_tasks, at_begin, imp_repeat>>

\* update_tickers awaits the next handle: an Ok goes into the ticker map,
\* the first Err is returned.
ImportJoin ==
    /\ imp_pc = "resolve"
    /\ imp_joined < Len(imp_handles)
    /\ LET sym == imp_handles[imp_joined + 1]
       IN  /\ imp_tasks[sym].st # "running"
           /\ IF imp_tasks[sym].st = "ok"
              THEN /\ imp_ticker_map' =
                        [k \in DOMAIN imp_ticker_map \cup {sym} |->
                            IF k = sym THEN [ticker |-> TickerOf(sym), id |-> imp_tasks[sym].id]
                            ELSE imp_ticker_map[k]]
                   /\ imp_joined' = imp_joined + 1
                   /\ UNCHANGED <<imp_pc, imp_result, imp_handles, imp_forex_map,
                                  imp_last_no, imp_i, imp_pending, imp_transactions,
                                  last_csv, last_ok>>
              ELSE Return(ImportTickerErr(sym))
    /\ UNCHANGED <<calcVars, gainsVars, resetVars, appVars, findVars, holdVars, tkVars, prcVars, csv, csv_header, dbVars, imp_tasks, at_begin, imp_repeat>>

\* With every handle joined: the persisted exchange rates, the watermark,
\* and the database transaction is opened.
ImportLoad(db_ok) ==
    /\ imp_pc = "resolve"
    /\ imp_joined = Len(imp_handles)
    /\ IF db_ok
       THEN /\ imp_forex_map' = get_existing_forex(db_transactions)
            /\ imp_last_no' = get_last_transaction_no(db_transactions)
            /\ imp_pc' = "rows"
            /\ imp_i' = 1
            /\ UNCHANGED <<imp_result, imp_handles, imp_joined, imp_ticker_map,
                           imp_pending, imp_transactions, last_csv, last_ok>>
       ELSE Return(ImportErr("database", 0))
    /\ UNCHANGED <<calcVars, gainsVars, resetVars, appVars, findVars, holdVars, tkVars, prcVars, csv, csv_header, dbVars, imp_tasks, at_begin, imp_repeat>>

ImportContext ==
    [ticker_map |-> imp_ticker_map, forex_map |-> imp_forex_map,
     last_transaction_no |-> imp_last_no, transactions |-> imp_transactions,
     rows |-> db_transactions, pending |-> imp_pending]

\* Variant: without the enclosing database transaction every insert is
\* committed as it is made.
ImportRow_Autocommit(price_lookup_ok, base_lookup_ok, insert_ok) ==
    /\ imp_pc = "rows"
    /\ imp_i <= Len(csv)
    /\ LET r == ProcessRecord(imp_i, csv[imp_i], ImportContext, price_lookup_ok,
                              base_lookup_ok, insert_ok)
       IN  IF r.kind = "err"
           THEN /\ Return(r.result)
                /\ UNCHANGED db_transactions
           ELSE /\ imp_i' = imp_i + 1
                /\ imp_pending' = r.pending
                /\ db_transactions' = db_transactions \cup SeqToSet(r.pending)
                /\ imp_transactions' = r.transactions
                /\ UNCHANGED <<imp_pc, imp_result, imp_handles, imp_joined,
                               imp_ticker_map, imp_forex_map, imp_last_no,
                               last_csv, last_ok>>
    /\ UNCHANGED <<calcVars, gainsVars, resetVars, appVars, findVars, holdVars, tkVars, prcVars, csv, csv_header, db_tickers, db_assets, imp_tasks, at_begin, imp_repeat>>

\* One iteration of the loop over the records.
ImportRow(price_lookup_ok, base_lookup_ok, insert_ok) ==
    /\ imp_pc = "rows"
    /\ imp_i <= Len(csv)
    /\ LET r == ProcessRecord(imp_i, csv[imp_i], ImportContext, price_lookup_ok,
                              base_lookup_ok, insert_ok)
       IN  IF r.kind = "err"
           THEN Return(r.result)
           ELSE /\ imp_i' = imp_i + 1
                /\ imp_pending' = r.pending
                /\ imp_transactions' = r.transactions
                /\ UNCHANGED <<imp_pc, imp_result, imp_handles, imp_joined,
                               imp_ticker_map, imp_forex_map, imp_last_no,
                               last_csv, last_ok>>
    /\ UNCHANGED <<calcVars, gainsVars, resetVars, appVars, findVars, holdVars, tkVars, prcVars, csv, csv_header, dbVars, imp_tasks, at_begin, imp_repeat>>

\* After the last record: tx.commit().
ImportCommit(commit_ok) ==
    /\ imp_pc = "rows"
    /\ imp_i > Len(csv)
    /\ IF commit_ok
       THEN /\ db_transactions' = db_transactions \cup SeqToSet(imp_pending)
            /\ Return(ImportOk)
       ELSE /\ Return(ImportErr("commit", 0))
            /\ UNCHANGED db_transactions
    /\ UNCHANGED <<calcVars, gainsVars, resetVars, appVars, findVars, holdVars, tkVars, prcVars, csv, csv_header, db_tickers, db_assets, imp_tasks, at_begin, imp_repeat>>

Orders == UNION {[1..n -> Symbols] : n \in 0..Cardinality(Symbols)}

Next ==
    \/ \E rec \in NextRecords(csv) : AppendRecord(rec)
    \/ \E n \in HeaderWidths : SetHeader(n)
    \/ \E order \in Orders : ImportBegin(order)
    \/ \E sym \in Symbols, outcome \in {"commit", "failed"} : TaskRun(sym, outcome)
    \/ ImportJoin
    \/ \E db_ok \in BOOLEAN : ImportLoad(db_ok)
    \/ \E price_lookup_ok \in BOOLEAN, base_lookup_ok \in BOOLEAN, insert_ok \in BOOLEAN :
           ImportRow(price_lookup_ok, base_lookup_ok, insert_ok)
    \/ \E commit_ok \in BOOLEAN : ImportCommit(commit_ok)

Spec == Init /\ [][Next]_vars

(***************************************************************************)
(* Portfolio::update_prices.                                               *)
(***************************************************************************)
\* No call is running: none was made, or the last one returned before its
\* spawn loop ("aborted") or after awaiting its tasks ("done").
PricesIdle == prc_pc \in {"idle", "aborted", "done"}

\* A ticker row comes into being as in update_tickers: a task inserts the
\* ticker found for a symbol that get_existing_tickers does not know.
TickerInsert(sym) ==
    /\ PricesIdle
    /\ \A r \in db_tickers : parse_str(r.api).ok
    /\ sym \notin DOMAIN get_existing_tickers(db_tickers, db_assets)
    /\ LET ins == insert_ticker(db_tickers, db_assets, TickerOf(sym))
       IN  /\ db_tickers' = ins.tickers
           /\ db_assets' = ins.assets
    /\ UNCHANGED <<calcVars, gainsVars, resetVars, appVars, findVars, holdVars, tkVars, prcVars, csv, csv_header, db_transactions, impVars>>

\* The database holds a ticker row written by a build with another
\* provider: its api column carries a tag that parse_str does not know.
TickerInsertForeign(sym) ==
    /\ PricesIdle
    /\ sym \notin {r.symbol : r \in db_tickers}
    /\ LET ins == insert_ticker(db_tickers, db_assets,
                                [TickerOf(sym) EXCEPT !.api = ForeignApi])
       IN  /\ db_tickers' = ins.tickers
           /\ db_assets' = ins.assets
    /\ UNCHANGED <<calcVars, gainsVars, resetVars, appVars, findVars, holdVars, tkVars, prcVars, csv, csv_header, db_transactions, impVars>>

\* The handles in the order of the rows of SELECT symbol, api FROM tickers.
RECURSIVE RowOrder(_)
RowOrder(ids) ==
    IF ids = {} THEN <<>>
    ELSE LET m == CHOOSE x \in ids : \A y \in ids : x <= y
         IN  <<m>> \o RowOrder(ids \ {m})

\* Variant: a row whose provider tag does not parse is passed over.
PricesBegin_SkipUnparsable(select_ok) ==
    /\ PricesIdle
    /\ prc_runs < MaxRefreshes
    /\ prc_runs' = prc_runs + 1
    /\ prc_before' = db_tickers
    /\ prc_joined' = 0
    /\ prc_errors' = <<>>
    /\ IF select_ok
       THEN LET rows == {r \in db_tickers : parse_str(r.api).ok}
            IN  /\ prc_pc' = "join"
                /\ prc_handles' = RowOrder({r.id : r \in rows})
                /\ prc_tasks' = [id \in {r.id : r \in rows} |->
                                    LET r == CHOOSE x \in rows : x.id = id
                                    IN  [symbol |-> r.symbol, api |-> r.api,
                                         st |-> "running", price |-> 0,
                                         written_at |-> 0, lookups |-> <<>>]]
                /\ prc_result' = PricesOk
       ELSE /\ prc_pc' = "aborted"
            /\ prc_handles' = <<>>
            /\ prc_tasks' = NoPriceTasks
            /\ prc_result' = PricesErr(<<"database">>)
    /\ UNCHANGED <<calcVars, gainsVars, resetVars, appVars, findVars, holdVars, tkVars, clock, csv, csv_header, dbVars, impVars>>

\* The call up to the end of the spawn loop: the query, the loop that
\* parses every row's provider tag, and one task per ticker row.
PricesBegin(select_ok) ==
    /\ PricesIdle
    /\ prc_runs < MaxRefreshes
    /\ prc_runs' = prc_runs + 1
    /\ prc_before' = db_tickers
    /\ prc_joined' = 0
    /\ prc_errors' = <<>>
    /\ IF ~select_ok
       THEN /\ prc_pc' = "aborted"
            /\ prc_handles' = <<>>
            /\ prc_tasks' = NoPriceTasks
            /\ prc_result' = PricesErr(<<"database">>)
       ELSE IF \E r \in db_tickers : ~parse_str(r.api).ok
       THEN /\ prc_pc' = "aborted"
            /\ prc_handles' = <<>>
            /\ prc_tasks' = NoPriceTasks
            /\ prc_result' = PricesErr(<<"provider tag">>)
       ELSE /\ prc_pc' = "join"
            /\ prc_handles' = RowOrder({r.id : r \in db_tickers})
            /\ prc_tasks' = [id \in {r.id : r \in db_tickers} |->
                                LET r == CHOOSE x \in db_tickers : x.id = id
                                IN  [symbol |-> r.symbol, api |-> parse_str(r.api).api,
                                     st |-> "running", price |-> 0, written_at |-> 0,
                                     lookups |-> <<>>]]
            /\ prc_result' = PricesOk
    /\ UNCHANGED <<calcVars, gainsVars, resetVars, appVars, findVars, holdVars, tkVars, clock, csv, csv_header, dbVars, impVars>>

\* Variant: a task whose lookup failed asks the other provider as well.
PriceLookup_Fallback(id, outcome) ==
    /\ id \in DOMAIN prc_tasks
    /\ prc_tasks[id].st = "running"
    /\ prc_tasks' = [prc_tasks EXCEPT
                        ![id].st = outcome,
                        ![id].price = IF outcome = "priced"
                                      THEN PriceQuote(prc_runs) ELSE 0,
                        ![id].lookups =
                            IF outcome = "failed"
                            THEN <<prc_tasks[id].api,
                                   IF prc_tasks[id].api = "Av" THEN "Fmp" ELSE "Av">>
                            ELSE <<prc_tasks[id].api>>]
    /\ UNCHANGED <<calcVars, gainsVars, resetVars, appVars, findVars, holdVars, tkVars, prc_pc, prc_handles, prc_joined, prc_errors,
                   prc_result, prc_before, prc_runs, clock, csv, csv_header, dbVars, impVars>>

\* A task's get_quote, sent to the provider of its row, returns a price,
\* returns an error, or never returns.
PriceLookup(id, outcome) ==
    /\ id \in DOMAIN prc_tasks
    /\ prc_tasks[id].st = "running"
    /\ prc_tasks' = [prc_tasks EXCEPT
                        ![id].st = outcome,
                        ![id].price = IF outcome = "priced"
                                      THEN PriceQuote(prc_runs) ELSE 0,
                        ![id].lookups = Append(@, prc_tasks[id].api)]
    /\ UNCHANGED <<calcVars, gainsVars, resetVars, appVars, findVars, holdVars, tkVars, prc_pc, prc_handles, prc_joined, prc_errors,
                   prc_result, prc_before, prc_runs, clock, csv, csv_header, dbVars, impVars>>

\* Variant: the row is rewritten from the quote, currency included.
UpdatePrice_WithCurrency(tickers, symbol, price, now) ==
    {IF r.symbol = symbol
     THEN [r EXCEPT !.last_price = price, !.last_price_updated_at = now,
                    !.currency = "USD"]
     ELSE r : r \in tickers}

\* Variant: the price is written and the time of the update is not.
UpdatePrice_PriceOnly(tickers, symbol, price, now) ==
    {IF r.symbol = symbol THEN [r EXCEPT !.last_price = price] ELSE r : r \in tickers}

\* UPDATE tickers SET last_price = ?, last_price_updated_at = DATETIME('now')
\* WHERE symbol = ?
UpdatePrice(tickers, symbol, price, now) ==
    {IF r.symbol = symbol
     THEN [r EXCEPT !.last_price = price, !.last_price_updated_at = now]
     ELSE r : r \in tickers}

\* Variant: a task writes only when no other task is still out.
PriceWrite_AfterSiblings(id, write_ok) ==
    /\ id \in DOMAIN prc_tasks
    /\ prc_tasks[id].st = "priced"
    /\ \A o \in DOMAIN prc_tasks : prc_tasks[o].st \notin {"running", "hung"}
    /\ IF write_ok
       THEN /\ clock' = clock + 1
            /\ db_tickers' = UpdatePrice(db_tickers, prc_tasks[id].symbol,
                                         prc_tasks[id].price, clock + 1)
            /\ prc_tasks' = [prc_tasks EXCEPT ![id].st = "written",
                                              ![id].written_at = clock + 1]
       ELSE /\ prc_tasks' = [prc_tasks EXCEPT ![id].st = "write failed"]
            /\ UNCHANGED <<clock, db_tickers>>
    /\ UNCHANGED <<calcVars, gainsVars, resetVars, appVars, findVars, holdVars, tkVars, prc_pc, prc_handles, prc_joined, prc_errors,
                   prc_result, prc_before, prc_runs, csv, csv_header, db_transactions, db_assets,
                   impVars>>

\* A task that has its price executes its UPDATE, or the database fails it.
PriceWrite(id, write_ok) ==
    /\ id \in DOMAIN prc_tasks
    /\ prc_tasks[id].st = "priced"
    /\ IF write_ok
       THEN /\ clock' = clock + 1
            /\ db_tickers' = UpdatePrice(db_tickers, prc_tasks[id].symbol,
                                         prc_tasks[id].price, clock + 1)
            /\ prc_tasks' = [prc_tasks EXCEPT ![id].st = "written",
                                              ![id].written_at = clock + 1]
       ELSE /\ prc_tasks' = [prc_tasks EXCEPT ![id].st = "write failed"]
            /\ UNCHANGED <<clock, db_tickers>>
    /\ UNCHANGED <<calcVars, gainsVars, resetVars, appVars, findVars, holdVars, tkVars, prc_pc, prc_handles, prc_joined, prc_errors,
                   prc_result, prc_before, prc_runs, csv, csv_header, db_transactions, db_assets,
                   impVars>>

\* Variant: the error of a task is dropped.
PricesJoin_ErrorDropped ==
    /\ prc_pc = "join"
    /\ prc_joined < Len(prc_handles)
    /\ prc_tasks[prc_handles[prc_joined + 1]].st \in {"written", "failed", "write failed"}
    /\ prc_joined' = prc_joined + 1
    /\ UNCHANGED <<calcVars, gainsVars, resetVars, appVars, findVars, holdVars, tkVars, prc_pc, prc_handles, prc_tasks, prc_errors,
                   prc_result, prc_before, prc_runs, clock, csv, csv_header, dbVars, impVars>>

\* The caller awaits the next handle and collects its error, if any: the
\* symbol for a lookup that failed, the database's for an UPDATE that did.
PricesJoin ==
    /\ prc_pc = "join"
    /\ prc_joined < Len(prc_handles)
    /\ LET task == prc_tasks[prc_handles[prc_joined + 1]]
       IN  /\ task.st \in {"written", "failed", "write failed"}
           /\ prc_errors' = IF task.st = "written" THEN prc_errors
                            ELSE IF task.st = "failed" THEN Append(prc_errors, task.symbol)
                            ELSE Append(prc_errors, "database")
    /\ prc_joined' = prc_joined + 1
    /\ UNCHANGED <<calcVars, gainsVars, resetVars, appVars, findVars, holdVars, tkVars, prc_pc, prc_handles, prc_tasks, prc_result,
                   prc_before, prc_runs, clock, csv, csv_header, dbVars, impVars>>

\* With every handle awaited the call returns.
PricesReturn ==
    /\ prc_pc = "join"
    /\ prc_joined = Len(prc_handles)
    /\ prc_pc' = "done"
    /\ prc_result' = IF prc_errors = <<>> THEN PricesOk ELSE PricesErr(prc_errors)
    /\ UNCHANGED <<calcVars, gainsVars, resetVars, appVars, findVars, holdVars, tkVars, prc_handles, prc_tasks, prc_joined, prc_errors,
                   prc_before, prc_runs, clock, csv, csv_header, dbVars, impVars>>

TickerIds == 1..Cardinality(PriceSymbols)

PricesNext ==
    \/ \E sym \in PriceSymbols : TickerInsert(sym)
    \/ \E sym \in PriceSymbols : TickerInsertForeign(sym)
    \/ \E select_ok \in BOOLEAN : PricesBegin(select_ok)
    \/ \E id \in TickerIds, outcome \in {"priced", "failed", "hung"} :
           PriceLookup(id, outcome)
    \/ \E id \in TickerIds, write_ok \in BOOLEAN : PriceWrite(id, write_ok)
    \/ PricesJoin
    \/ PricesReturn

SpecPrices == Init /\ [][PricesNext]_vars

\* The runtime runs every spawned task: a task that can take its next step
\* takes it.
SpecPricesFair ==
    /\ SpecPrices
    /\ \A id \in TickerIds : WF_vars(\E write_ok \in BOOLEAN : PriceWrite(id, write_ok))

(***************************************************************************)
(* The calculator called directly, or the importer run: one or the other.  *)
(***************************************************************************)
(***************************************************************************)
(* update_tickers, called again and again: the tasks a call leaves behind  *)
(* when it returns at the first Err keep running beside the next call.     *)
(***************************************************************************)
\* The tickers table as the migrations define it is not part of the source:
\* a symbol may be held unique by the table, or not.
TickerSymbolTaken(tickers, symbol) == \E t \in tickers : t.symbol = symbol

\* The call up to the end of the spawn loop, for the symbols the pre-scan
\* collected: one task per symbol the existing map does not hold.
TickersBegin(symbols, order) ==
    /\ tk_pc = "idle"
    /\ tk_calls < MaxTickerCalls
    /\ LET known   == get_existing_tickers(db_tickers, db_assets)
           unknown == symbols \ DOMAIN known
       IN  /\ Len(order) = Cardinality(unknown)
           /\ SeqToSet(order) = unknown
           /\ tk_handles' = order
           /\ tk_tasks' = [k \in DOMAIN tk_tasks \cup ({tk_calls + 1} \X unknown) |->
                             IF k \in DOMAIN tk_tasks THEN tk_tasks[k]
                             ELSE [st |-> "running", id |-> 0]]
    /\ tk_calls' = tk_calls + 1
    /\ tk_pc' = "join"
    /\ tk_joined' = 0
    /\ tk_result' = ImportOk
    /\ UNCHANGED <<calcVars, gainsVars, resetVars, appVars, findVars, holdVars, prcVars, csv, csv_header, dbVars, impVars>>

\* A spawned task, of the running call or of an earlier one: find_ticker
\* fails ("failed"), or the ticker is inserted and committed ("commit"), or
\* the INSERT of a symbol the table holds unique is refused and the task's
\* transaction is dropped ("refused").
TickerTask(k, outcome) ==
    /\ k \in DOMAIN tk_tasks
    /\ tk_tasks[k].st = "running"
    /\ outcome = "refused" => TickerSymbolTaken(db_tickers, TickerOf(k[2]).symbol)
    /\ IF outcome = "commit"
       THEN LET ins == insert_ticker(db_tickers, db_assets, TickerOf(k[2]))
            IN  /\ db_tickers' = ins.tickers
                /\ db_assets' = ins.assets
                /\ tk_tasks' = [tk_tasks EXCEPT ![k] = [st |-> "ok", id |-> ins.id]]
       ELSE /\ tk_tasks' = [tk_tasks EXCEPT ![k] = [st |-> outcome, id |-> 0]]
            /\ UNCHANGED <<db_tickers, db_assets>>
    /\ UNCHANGED <<calcVars, gainsVars, resetVars, appVars, findVars, holdVars, prcVars, csv, csv_header, db_transactions, impVars,
                   tk_pc, tk_handles, tk_joined, tk_result, tk_calls>>

\* The next handle is awaited: an Ok is passed over, the first Err is
\* returned and the handles after it are dropped.
TickersJoin ==
    /\ tk_pc = "join"
    /\ tk_joined < Len(tk_handles)
    /\ LET sym == tk_handles[tk_joined + 1]
           st  == tk_tasks[<<tk_calls, sym>>].st
       IN  /\ st # "running"
           /\ IF st = "ok"
              THEN /\ tk_joined' = tk_joined + 1
                   /\ UNCHANGED <<tk_pc, tk_handles, tk_result>>
              ELSE /\ tk_pc' = "idle"
                   /\ tk_result' = ImportTickerErr(sym)
                   /\ tk_handles' = <<>>
                   /\ tk_joined' = 0
    /\ UNCHANGED <<calcVars, gainsVars, resetVars, appVars, findVars, holdVars, prcVars, csv, csv_header, dbVars, impVars, tk_tasks, tk_calls>>

\* Every handle was joined: Ok(existing_tickers).
TickersReturn ==
    /\ tk_pc = "join"
    /\ tk_joined = Len(tk_handles)
    /\ tk_pc' = "idle"
    /\ tk_result' = ImportOk
    /\ tk_handles' = <<>>
    /\ tk_joined' = 0
    /\ UNCHANGED <<calcVars, gainsVars, resetVars, appVars, findVars, holdVars, prcVars, csv, csv_header, dbVars, impVars, tk_tasks, tk_calls>>

TickerTaskIds == (1..MaxTickerCalls) \X Symbols

TickersNext ==
    \/ \E symbols \in SUBSET Symbols, order \in Orders :
           TickersBegin(symbols, order)
    \/ \E k \in TickerTaskIds, outcome \in {"commit", "failed", "refused"} :
           TickerTask(k, outcome)
    \/ TickersJoin
    \/ TickersReturn

SpecTickers == Init /\ [][TickersNext]_vars

CalcPristine == calc_amounts = <<>> /\ ~calc_done

ImportPristine == csv = <<>> /\ imp_pc = "idle"

NextEither ==
    \/ ImportPristine /\ CalcNext
    \/ CalcPristine /\ Next

SpecEither == Init /\ [][NextEither]_vars

(***************************************************************************)
(* Portfolio::set_holdings, called once after the imports of a run.        *)
(***************************************************************************)
\* Variant: the list is cleared before the rows are read.
SetHoldings_ClearFirst(outcome) ==
    /\ Idle
    /\ holdings_loads < MaxLoads
    /\ outcome = "row" => HoldingRows(db_transactions, db_tickers, db_assets) # {}
    /\ holdings_loads' = holdings_loads + 1
    /\ holdings_result' = outcome
    /\ IF outcome = "ok"
       THEN /\ holdings' = set_holdings(db_transactions, db_tickers, db_assets)
            /\ holdings_set' = TRUE
       ELSE /\ holdings' = {}
            /\ UNCHANGED holdings_set
    /\ UNCHANGED <<calcVars, gainsVars, resetVars, appVars, findVars, prcVars, tkVars, csv, csv_header, dbVars, impVars>>

\* set_holdings: the query fails, a row of it cannot be read, or the
\* holdings are replaced by those built from its rows.
SetHoldings(outcome) ==
    /\ Idle
    /\ holdings_loads < MaxLoads
    /\ outcome = "row" => HoldingRows(db_transactions, db_tickers, db_assets) # {}
    /\ holdings_loads' = holdings_loads + 1
    /\ holdings_result' = outcome
    /\ IF outcome = "ok"
       THEN /\ holdings' = set_holdings(db_transactions, db_tickers, db_assets)
            /\ holdings_set' = TRUE
       ELSE UNCHANGED <<holdings, holdings_set>>
    /\ UNCHANGED <<calcVars, gainsVars, resetVars, appVars, findVars, prcVars, tkVars, csv, csv_header, dbVars, impVars>>

NextHoldings ==
    \/ ~holdings_set /\ Next
    \/ ~holdings_set /\ SetHoldings("ok")

SpecHoldings == Init /\ [][NextHoldings]_vars

\* Calls of set_holdings between imports of files of up to MaxReloadRows
\* lines.
NextReload ==
    \/ Next /\ Len(csv') <= MaxReloadRows /\ csv_header' = MinColumns
    \/ \E outcome \in {"ok", "query", "row"} : SetHoldings(outcome)

SpecReload == Init /\ [][NextReload]_vars

(***************************************************************************)
(* truncate_tables, called on the tables the imports have left.            *)
(***************************************************************************)
TruncateTables(clear_assets, fail_at) ==
    /\ Idle
    /\ RunningTasks = {}
    /\ reset_calls < MaxResets
    /\ fail_at \in {"tickers", "assets"} => clear_assets
    /\ reset_calls' = reset_calls + 1
    /\ reset_last' = [clear_assets |-> clear_assets, fail_at |-> fail_at]
    /\ LET after == truncate_tables(db_transactions, db_tickers, db_assets,
                                    clear_assets, fail_at)
       IN  /\ db_transactions' = after.transactions
           /\ db_tickers' = after.tickers
           /\ db_assets' = after.assets
    /\ UNCHANGED <<calcVars, gainsVars, appVars, findVars, holdVars, prcVars, tkVars, csv, csv_header,
                   impVars>>

NextReset ==
    \/ reset_calls = 0 /\ Next /\ Len(csv') <= MaxReloadRows /\ csv_header' = MinColumns
    \/ \E clear_assets \in BOOLEAN,
          fail_at \in {"none", "begin", "transactions", "tickers", "assets", "commit"} :
           TruncateTables(clear_assets, fail_at)

SpecReset == Init /\ [][NextReset]_vars

\* The importer run on the empty database, or tickers inserted and their
\* prices refreshed: one or the other.
PricesPristine == prc_pc = "idle" /\ prc_runs = 0 /\ (ImportPristine => db_tickers = {})

NextImportOrPrices ==
    \/ PricesPristine /\ Next
    \/ ImportPristine /\ PricesNext

SpecImportOrPrices == Init /\ [][NextImportOrPrices]_vars

(***************************************************************************)
(* Properties of calculate_position_state, checked under SpecCalc.         *)
(***************************************************************************)
IsWhole(q) == q % Unit = 0

IsBuyElem(a, q) == a < 0 /\ q > 0

IsSellElem(a, q) == a > 0 /\ q < 0

SeqAbs(s) == [k \in 1..Len(s) |-> DecAbs(s[k])]

\* A FIFO ledger kept by lots (unit cost c, n units), oldest lot first.
RECURSIVE TakeOldest(_, _)
TakeOldest(lots, k) ==
    IF k = 0 \/ lots = <<>> THEN [cost |-> 0, rest |-> lots]
    ELSE LET l == Head(lots)
         IN  IF l.n <= k
             THEN LET t == TakeOldest(Tail(lots), k - l.n)
                  IN  [cost |-> l.n * l.c + t.cost, rest |-> t.rest]
             ELSE [cost |-> k * l.c,
                   rest |-> <<[c |-> l.c, n |-> l.n - k]>> \o Tail(lots)]

RECURSIVE LotUnits(_)
LotUnits(lots) == IF lots = <<>> THEN 0 ELSE Head(lots).n + LotUnits(Tail(lots))

RECURSIVE LotCost(_)
LotCost(lots) ==
    IF lots = <<>> THEN 0 ELSE Head(lots).n * Head(lots).c + LotCost(Tail(lots))

RECURSIVE LotsAfter(_, _, _)
LotsAfter(amounts, quantities, i) ==
    IF i = 0 THEN <<>>
    ELSE LET prev == LotsAfter(amounts, quantities, i - 1)
         IN  IF amounts[i] < 0
             THEN Append(prev, [c |-> DecDiv(DecAbs(amounts[i]), quantities[i]),
                                n |-> quantities[i] \div Unit])
             ELSE TakeOldest(prev, (0 - quantities[i]) \div Unit).rest

\* Whole-unit buys and sells, no sell of more than is held, a sell last.
WholeUnitFifoCase(amounts, quantities) ==
    /\ Len(amounts) = Len(quantities)
    /\ Len(amounts) >= 2
    /\ \A i \in 1..Len(amounts) :
          /\ IsWhole(quantities[i])
          /\ IsBuyElem(amounts[i], quantities[i]) \/ IsSellElem(amounts[i], quantities[i])
          /\ IsSellElem(amounts[i], quantities[i]) =>
                (0 - quantities[i]) \div Unit <= LotUnits(LotsAfter(amounts, quantities, i - 1))
    /\ IsSellElem(amounts[Len(amounts)], quantities[Len(amounts)])

\* C1: in a replay of whole-unit buys (and covered sells) that ends with a
\* sell of k units, k not more than the units held, cost_of_units_sold is the
\* sum of the unit costs of the k oldest units held before that sell,
\* cumulative_cost is the sum of the unit costs of the units that remain and
\* cumulative_units is the sum of the signed quantities.
C1_FifoOldestFirst ==
    (calc_done /\ WholeUnitFifoCase(calc_amounts, calc_quantities)) =>
        LET n      == Len(calc_amounts)
            before == LotsAfter(calc_amounts, calc_quantities, n - 1)
            t      == TakeOldest(before, (0 - calc_quantities[n]) \div Unit)
        IN  /\ calc_result.ok
            /\ calc_result.state.cost_of_units_sold = t.cost
            /\ calc_result.state.cumulative_cost = LotCost(t.rest)
            /\ calc_result.state.cumulative_units = SumSeq(calc_quantities)

\* A sell that takes all of the oldest lot and part of the next, dearer or
\* cheaper, one, and leaves units behind.
C1_Witness ==
    /\ calc_done
    /\ WholeUnitFifoCase(calc_amounts, calc_quantities)
    /\ Len(calc_amounts) = 4
    /\ LET before == LotsAfter(calc_amounts, calc_quantities, 3)
       IN  /\ Len(before) = 3
           /\ before[1].c # before[2].c
           /\ before[1].n < (0 - calc_quantities[4]) \div Unit
    /\ calc_result.ok
    /\ calc_result.state.cumulative_units > 0

BuysOnlyCase(amounts, quantities) ==
    /\ Len(amounts) = Len(quantities)
    /\ amounts # <<>>
    /\ \A i \in 1..Len(amounts) : amounts[i] < 0 /\ quantities[i] > 0

\* C5: for buys only (every amount negative, every quantity positive, whole
\* or fractional) cumulative_units is the sum of the quantities and
\* cumulative_cost is the sum of |amount|.
C5_BuysOnlySums ==
    (calc_done /\ BuysOnlyCase(calc_amounts, calc_quantities)) =>
        /\ calc_result.ok
        /\ calc_result.state.cumulative_units = SumSeq(calc_quantities)
        /\ calc_result.state.cumulative_cost = SumSeq(SeqAbs(calc_amounts))

\* Buys, then sells, the quantities summing to zero.
FullySoldCase(amounts, quantities) ==
    /\ Len(amounts) = Len(quantities)
    /\ \E j \in 1..(Len(amounts) - 1) :
          /\ \A i \in 1..j : IsBuyElem(amounts[i], quantities[i])
          /\ \A i \in (j + 1)..Len(amounts) : IsSellElem(amounts[i], quantities[i])
    /\ SumSeq(quantities) = 0

\* C6: after buys followed by sells whose quantities sum to zero the call
\* returns cumulative_units = 0 and cumulative_cost = 0.
C6_FullSellDrains ==
    (calc_done /\ FullySoldCase(calc_amounts, calc_quantities)) =>
        /\ calc_result.ok
        /\ calc_result.state.cumulative_units = 0
        /\ calc_result.state.cumulative_cost = 0

\* Two buys at different unit costs, then a sell of fewer units than both
\* buys together.
TwoBuysPartialSellCase(amounts, quantities) ==
    /\ Len(amounts) = 3 /\ Len(quantities) = 3
    /\ IsBuyElem(amounts[1], quantities[1])
    /\ IsBuyElem(amounts[2], quantities[2])
    /\ DecDiv(amounts[1], quantities[1]) # DecDiv(amounts[2], quantities[2])
    /\ IsSellElem(amounts[3], quantities[3])
    /\ 0 - quantities[3] < quantities[1] + quantities[2]

SwapFirstTwo(s) == <<s[2], s[1], s[3]>>

\* C7: for two buys at different unit costs and a sell of fewer units than
\* the two together, the replay with the two buys swapped returns another
\* cost_of_units_sold.
C7_OrderDependent ==
    (calc_done /\ TwoBuysPartialSellCase(calc_amounts, calc_quantities)) =>
        LET swapped == calculate_position_state(SwapFirstTwo(calc_amounts),
                                                SwapFirstTwo(calc_quantities))
        IN  /\ calc_result.ok
            /\ swapped.ok
            /\ swapped.state.cost_of_units_sold # calc_result.state.cost_of_units_sold

\* Some sell element asks for more whole units than the queue then holds.
OversellAt(amounts, quantities, i) ==
    LET st == ReplayUpTo(amounts, quantities, i - 1)
    IN  /\ st.ok
        /\ amounts[i] > 0
        /\ quantities[i] # 0
        /\ QuantityAbs(quantities[i]) > Len(st.queue)

OversellCase(amounts, quantities) ==
    /\ Len(amounts) = Len(quantities)
    /\ \E i \in 1..Len(amounts) : OversellAt(amounts, quantities, i)

\* C8 as stated: a sell of more whole units than the queue holds is
\* tolerated, the call returns Ok with a PositionState.
C8_OversellTolerated ==
    (calc_done /\ OversellCase(calc_amounts, calc_quantities)) => calc_result.ok

\* C8 (amended): a sell of more whole units than the queue holds makes the
\* call return the error "sell more units than available" and no
\* PositionState; the queue is never popped when empty.
C8_OversellRejected ==
    (calc_done /\ OversellCase(calc_amounts, calc_quantities)) =>
        /\ ~calc_result.ok
        /\ calc_result.err = "sell more units than available"

\* One unit bought, two sold.
C8_Witness ==
    /\ calc_done
    /\ Len(calc_amounts) = 2 /\ Len(calc_quantities) = 2
    /\ IsBuyElem(calc_amounts[1], calc_quantities[1])
    /\ OversellAt(calc_amounts, calc_quantities, 2)
    /\ Len(ReplayUpTo(calc_amounts, calc_quantities, 1).queue) > 0
    /\ ~calc_result.ok

\* C27: a call that returns Ok returns as cumulative_units the signed sum
\* of all quantities, rounded to 4 decimal places; in particular no
\* positive number of units when more units were sold than acquired.
C27_UnitsAreSignedSum ==
    (calc_done /\ calc_result.ok) =>
        /\ calc_result.state.cumulative_units
               = DecRoundDp(SumSeq(calc_quantities), RoundPlaces)
        /\ SumSeq(calc_quantities) < 0 => calc_result.state.cumulative_units <= 0

WholeQuantities(quantities) ==
    \A i \in 1..Len(quantities) : DecFloor(quantities[i]) = quantities[i]

\* C28: for whole-number quantities, after each element processed without
\* error the queue holds as many unit costs as the signed sum of the
\* quantities so far, whatever the amounts, an amount of zero included.
C28_QueueHoldsRunningSum ==
    (calc_done /\ Len(calc_amounts) = Len(calc_quantities)
               /\ WholeQuantities(calc_quantities)) =>
        \A i \in 1..Len(calc_amounts) :
            LET st == ReplayUpTo(calc_amounts, calc_quantities, i)
            IN  st.ok => /\ Len(st.queue) * Dec(1, 0) = st.cumulative_units
                         /\ st.cumulative_units
                                = SumSeq(SubSeq(calc_quantities, 1, i))

(***************************************************************************)
(* Properties of import_transactions.                                      *)
(***************************************************************************)
Done == imp_pc = "done"

UniqueTransactionNo(rows) ==
    \A r1 \in rows, r2 \in rows : r1.transaction_no = r2.transaction_no => r1 = r2

\* C2: when import_transactions is called again on the file its previous
\* call imported successfully, then after the second call the transaction
\* rows are the rows the first call left, no two rows share a
\* transaction_no, and the holdings query returns what it returned before.
C2_ImportTwiceIdempotent ==
    (Done /\ imp_repeat) =>
        /\ db_transactions = at_begin.transactions
        /\ UniqueTransactionNo(db_transactions)
        /\ HoldingsQuery(db_transactions, db_tickers, db_assets) =
               HoldingsQuery(at_begin.transactions, at_begin.tickers, at_begin.assets)

\* The second call returned Ok on a file of three lines that left rows, two
\* lines sharing a number, and a holding.
C2_Witness ==
    /\ Done
    /\ imp_repeat
    /\ imp_result.ok
    /\ Len(csv) = 3
    /\ \E j \in 1..2 : csv[j].transaction_no = csv[j + 1].transaction_no
    /\ Cardinality(db_transactions) = 2
    /\ HoldingsQuery(db_transactions, db_tickers, db_assets) # {}

\* The import of a whole file into an empty database in which every task,
\* lookup, insert and the commit succeed: the rows it persists.
RECURSIVE OneShotFrom(_, _, _)
OneShotFrom(file, i, ctx) ==
    IF i > Len(file) THEN [ok |-> TRUE, rows |-> SeqToSet(ctx.pending)]
    ELSE LET r == ProcessRecord(i, file[i], ctx, TRUE, TRUE, TRUE)
         IN  IF r.kind = "err" THEN [ok |-> FALSE, rows |-> {}]
             ELSE OneShotFrom(file, i + 1,
                              [ctx EXCEPT !.pending = r.pending,
                                          !.transactions = r.transactions])

OneShot(file) ==
    OneShotFrom(file, 1,
                [ticker_map |-> [sym \in ScanSymbols(file) |->
                                    [ticker |-> TickerOf(sym), id |-> 1]],
                 forex_map |-> NoMap, last_transaction_no |-> 0,
                 transactions |-> <<>>, rows |-> {}, pending |-> <<>>])

\* The PositionState and TransactionGains columns of a set of rows.
Snapshots(rows) ==
    {[transaction_no |-> r.transaction_no,
      cumulative_units |-> r.cumulative_units,
      cumulative_cost |-> r.cumulative_cost,
      cost_of_units_sold |-> r.cost_of_units_sold,
      realized_gains |-> r.realized_gains,
      dividends_collected |-> r.dividends_collected] : r \in rows}

\* C3: after a successful import of the file, whatever prefixes of it were
\* imported before, every row carries the PositionState and
\* TransactionGains that one import of the whole file into an empty
\* database gives it.
C3_PrefixThenFull ==
    (Done /\ imp_result.ok /\ last_csv = csv /\ OneShot(csv).ok) =>
        Snapshots(db_transactions) = Snapshots(OneShot(csv).rows)

\* C4: when import_transactions has returned an error, the transaction
\* rows are the rows there were when the call began.
C4_AllOrNothing ==
    (Done /\ ~imp_result.ok) => db_transactions = at_begin.transactions

\* The insert of the third record failed in a call that began on an empty
\* table, after the first two records were inserted.
C4_Witness ==
    /\ Done
    /\ imp_result = ImportErr("insert", 3)
    /\ at_begin.transactions = {}
    /\ csv[1].transaction_no # csv[2].transaction_no
    /\ db_transactions = {}

\* The loop is at a well-formed record whose transaction_no is at most the
\* highest transaction_no persisted when the call began.
AtPersistedRecord ==
    /\ imp_pc = "rows"
    /\ imp_i <= Len(csv)
    /\ csv[imp_i].bad = "none"
    /\ at_begin.transactions # {}
    /\ \E r \in at_begin.transactions : csv[imp_i].transaction_no <= r.transaction_no

\* The loop continues with the next record and does nothing else.
SkipStep ==
    /\ imp_pc' = "rows"
    /\ imp_i' = imp_i + 1
    /\ UNCHANGED <<imp_pending, imp_transactions, dbVars>>

\* C10: no step removes or changes a persisted transaction row, and the
\* loop skips every record whose transaction_no is at most the highest
\* transaction_no persisted when the call began.
C10_PersistedNeverChanged ==
    [][ /\ db_transactions \subseteq db_transactions'
        /\ AtPersistedRecord => SkipStep ]_vars

C11_MalformedRowFails ==
    (Done /\ last_csv = csv /\ \E k \in 1..Len(csv) : csv[k].bad # "none") =>
        /\ ~imp_result.ok
        /\ db_transactions = at_begin.transactions

\* C13: every persisted transaction row of type Buy or Div has
\* cost_of_units_sold = 0.
C13_CostSoldOnlyOnSell ==
    \A r \in db_transactions :
        r.transaction_type \in {"Buy", "Div"} => r.cost_of_units_sold = 0

(***************************************************************************)
(* Properties of calculate_transaction_gains.                              *)
(***************************************************************************)
\* C12: calculate_transaction_gains returns realized_gains = |amount| -
\* cost_of_units_sold for a Sell and 0 otherwise, dividends_collected =
\* amount for a Div and 0 otherwise, amount being price * exchange_rate *
\* quantity + fees (negated for a Buy); so realized_gains is non-zero only
\* for a Sell and dividends_collected only for a Div.
C12_GainsByType ==
    gains_call.done =>
        LET t      == gains_call.transaction
            gross  == DecMul(DecMul(t.price, t.exchange_rate), t.quantity) + t.fees
            amount == IF t.transaction_type = "Buy" THEN 0 - gross ELSE gross
            sold   == gains_call.position_state.cost_of_units_sold
            g      == gains_call.gains
        IN  /\ g.realized_gains =
                   IF t.transaction_type = "Sell" THEN DecAbs(amount) - sold ELSE 0
            /\ g.dividends_collected =
                   IF t.transaction_type = "Div" THEN amount ELSE 0
            /\ g.realized_gains # 0 => t.transaction_type = "Sell"
            /\ g.dividends_collected # 0 => t.transaction_type = "Div"

\* A Sell of 2 units at 30 with rate 0.5 and fees 1 against a cost of 10:
\* the gain is 31 - 10 = 21 and there is no dividend.
C12_Witness ==
    /\ gains_call.done
    /\ gains_call.transaction =
           [transaction_type |-> "Sell", quantity |-> Dec(2, 0), price |-> Dec(30, 0),
            exchange_rate |-> Dec(5, 1), fees |-> Dec(1, 0)]
    /\ gains_call.position_state.cost_of_units_sold = Dec(10, 0)
    /\ gains_call.gains = [realized_gains |-> Dec(21, 0), dividends_collected |-> 0]

(***************************************************************************)
(* Properties of update_prices.                                            *)
(***************************************************************************)
TickerRow(tickers, id) == CHOOSE r \in tickers : r.id = id

TasksIn(st) == {id \in DOMAIN prc_tasks : prc_tasks[id].st = st}

\* The call has returned after awaiting its tasks, and no UPDATE was failed
\* by the database: every task either wrote its price or had its lookup
\* fail.
RefreshReturned ==
    /\ prc_pc = "done"
    /\ TasksIn("write failed") = {}

C15_NoHalfUpdate ==
    \A id \in DOMAIN prc_tasks :
        LET r == TickerRow(db_tickers, id)
            b == TickerRow(prc_before, id)
        IN  \/ /\ r.last_price = b.last_price
               /\ r.last_price_updated_at = b.last_price_updated_at
            \/ /\ prc_tasks[id].st = "written"
               /\ r.last_price = prc_tasks[id].price
               /\ r.last_price_updated_at = prc_tasks[id].written_at

\* In the middle of the second refresh: one task has written, one has its
\* price and has not written yet, one is still looking up.
C15_Witness ==
    /\ prc_pc = "join"
    /\ prc_runs = 2
    /\ TasksIn("written") # {}
    /\ TasksIn("priced") # {}
    /\ TasksIn("running") # {}
    /\ \A id \in TasksIn("written") : TickerRow(prc_before, id).last_price_updated_at > 0

\* C16: a task whose lookup has returned a price executes its UPDATE,
\* whatever the other tasks do: it writes its price, unless the database
\* fails the statement.
C16_SiblingsNotBlocked ==
    \A id \in TickerIds :
        (id \in DOMAIN prc_tasks /\ prc_tasks[id].st = "priced")
            ~> (id \in DOMAIN prc_tasks /\ prc_tasks[id].st \in {"written", "write failed"})

\* A task has written its price while one sibling hangs and another has
\* failed.
C16_Witness ==
    /\ TasksIn("written") # {}
    /\ TasksIn("hung") # {}
    /\ TasksIn("failed") # {}

FailedTasks == {sym \in DOMAIN imp_tasks : imp_tasks[sym].st = "failed"}

\* C17: when the call has returned and the lookup task of one of the
\* symbols of the file has failed, the call has returned an error and the
\* transaction rows are the rows of before the call.
C17_LookupFailureAborts ==
    (Done /\ FailedTasks # {})
        => /\ ~imp_result.ok
           /\ db_transactions = at_begin.transactions

\* A file whose first record has the symbol AAA and the alternative symbol
\* BBB: AAA was resolved and its ticker committed, BBB was not, and the
\* call returned the error of the task of BBB.
C17_Witness ==
    /\ Done
    /\ last_csv = csv
    /\ csv # <<>>
    /\ csv[1].symbol = "AAA"
    /\ csv[1].alternative_symbol = "BBB"
    /\ DOMAIN imp_tasks = {"AAA", "BBB"}
    /\ imp_tasks["AAA"].st = "ok"
    /\ imp_tasks["BBB"].st = "failed"
    /\ imp_result = ImportTickerErr("BBB")
    /\ db_transactions = {}

\* C18: the error update_tickers hands to import_transactions names every
\* symbol whose task has failed by the time the call returns.
C18_ErrorListsEverySymbol ==
    [][(imp_pc = "resolve" /\ imp_pc' = "done" /\ imp_result'.err = "ticker")
          => imp_result'.symbols = FailedTasks]_vars

\* C19: when the call has returned an error, the tickers and the assets
\* are those of before the call.
C19_FailureLeavesNoTickers ==
    (Done /\ ~imp_result.ok)
        => /\ db_tickers = at_begin.tickers
           /\ db_assets = at_begin.assets

OneTickerPerSymbol(tickers) ==
    \A t1 \in tickers, t2 \in tickers : t1.symbol = t2.symbol => t1 = t2

OneAssetPerName(assets) ==
    \A a1 \in assets, a2 \in assets : a1.name = a2.name => a1 = a2

\* C20: whenever a ticker task gets past find_ticker to its insertion,
\* whatever the other tasks have done: afterwards there is at most one
\* ticker row per symbol and one asset row per name, and when the symbol
\* had a row already the insertion succeeds and leaves the tables as they
\* are.
C20_InsertIfAbsent ==
    [][\A k \in DOMAIN tk_tasks :
          (tk_tasks[k].st = "running" /\ tk_tasks'[k].st \in {"ok", "refused"})
              => /\ OneTickerPerSymbol(db_tickers')
                 /\ OneAssetPerName(db_assets')
                 /\ TickerSymbolTaken(db_tickers, TickerOf(k[2]).symbol)
                       => /\ tk_tasks'[k].st = "ok"
                          /\ db_tickers' = db_tickers
                          /\ db_assets' = db_assets]_vars

TickerIdentity(r) ==
    [id |-> r.id, symbol |-> r.symbol, asset_id |-> r.asset_id, currency |-> r.currency,
     exchange |-> r.exchange, api |-> r.api]

\* C21: in every step, each ticker row keeps its symbol, currency, exchange
\* and provider; a step of the import leaves every ticker row and asset row
\* there was as it is; a step of update_prices leaves the set of ticker
\* rows, the assets and the transactions as they are.
C21_TickerFrame ==
    [][/\ \A r \in db_tickers :
            \E r2 \in db_tickers' : TickerIdentity(r2) = TickerIdentity(r)
       /\ ~ImportPristine'
            => /\ db_tickers \subseteq db_tickers'
               /\ db_assets \subseteq db_assets'
       /\ prcVars' # prcVars
            => /\ {TickerIdentity(r) : r \in db_tickers'} = {TickerIdentity(r) : r \in db_tickers}
               /\ db_assets' = db_assets
               /\ db_transactions' = db_transactions]_vars

\* In the second refresh the task of a ticker has written a price that
\* differs from the one the row had before the call.
C21_Witness ==
    /\ prc_runs = 2
    /\ \E id \in TasksIn("written") :
          /\ TickerRow(db_tickers, id).last_price # TickerRow(prc_before, id).last_price
          /\ TickerRow(prc_before, id).last_price_updated_at > 0
          /\ TickerRow(db_tickers, id).currency = "EUR"

KnownAtBegin == {t.symbol : t \in at_begin.tickers}

JoinedSymbols == {imp_handles[j] : j \in 1..imp_joined}

\* C22: while the call runs, its tasks are one for each symbol of the file
\* that had no ticker row when the call began, and none for any other; the
\* ticker map holds the result of a task once its handle was awaited and
\* not before; and when rows are processed every task has finished with
\* its result in the map.
C22_OneTaskPerUnknownSymbol ==
    imp_pc \in {"resolve", "rows"}
        => /\ DOMAIN imp_tasks = ScanSymbols(csv) \ KnownAtBegin
           /\ Len(imp_handles) = Cardinality(DOMAIN imp_tasks)
           /\ SeqToSet(imp_handles) = DOMAIN imp_tasks
           /\ DOMAIN imp_ticker_map = KnownAtBegin \cup JoinedSymbols
           /\ \A sym \in JoinedSymbols :
                 /\ imp_tasks[sym].st = "ok"
                 /\ imp_ticker_map[sym].id = imp_tasks[sym].id
           /\ imp_pc = "rows" => JoinedSymbols = DOMAIN imp_tasks

\* The first row is about to be processed of a file that names AAA, which
\* had a ticker when the call began, and BBB, which had none: the only
\* task is that of BBB, and it has finished.
C22_Witness ==
    /\ imp_pc = "rows"
    /\ imp_i = 1
    /\ ScanSymbols(csv) = {"AAA", "BBB"}
    /\ KnownAtBegin = {"AAA"}
    /\ DOMAIN imp_tasks = {"BBB"}
    /\ imp_tasks["BBB"].st = "ok"

\* The record the loop is at, when it gets as far as its ticker.
AtResolvedRecord ==
    /\ imp_pc = "rows"
    /\ imp_i <= Len(csv)
    /\ ProcessRecord(imp_i, csv[imp_i], ImportContext, TRUE, TRUE, TRUE).kind = "ok"

RecordCurrency ==
    LET rec == csv[imp_i]
    IN  imp_ticker_map[LookupTicker(imp_ticker_map, rec.symbol,
                                    rec.alternative_symbol).key].ticker.currency

\* C23: a record whose transaction currency is empty or the currency of its
\* ticker is processed whether or not the provider answers for the price,
\* and its row carries the price of the record; a record whose ticker has
\* the base currency is processed whether or not the provider answers for
\* the base rate, and its row carries the exchange rate 1.
C23_EqualCurrenciesNoLookup ==
    AtResolvedRecord =>
        LET rec == csv[imp_i]
            same_price == rec.transaction_currency \in {"", RecordCurrency}
            same_base  == RecordCurrency = BaseCurrency
        IN  \A price_lookup_ok \in BOOLEAN, base_lookup_ok \in BOOLEAN :
               LET r == ProcessRecord(imp_i, rec, ImportContext, price_lookup_ok,
                                      base_lookup_ok, TRUE)
                   stored == Len(r.pending) > Len(imp_pending)
                   row == r.pending[Len(r.pending)]
               IN  /\ (same_price /\ base_lookup_ok) => r.kind = "ok"
                   /\ (same_base /\ price_lookup_ok) => r.kind = "ok"
                   /\ (r.kind = "ok" /\ stored /\ same_price)
                         => row.price = DecRoundDp(rec.price, RoundPlaces)
                   /\ (r.kind = "ok" /\ stored /\ same_base)
                         => row.exchange_rate = Dec(1, 0)

\* The loop is at a buy of BBB, a USD instrument, with no transaction
\* currency, after it has inserted a buy of AAA, an EUR instrument, with
\* exchange rate 1 and the price of the record.
C23_Witness ==
    /\ AtResolvedRecord
    /\ imp_i = 2
    /\ csv[1].symbol = "AAA"
    /\ csv[1].transaction_currency = ""
    /\ Len(imp_pending) = 1
    /\ imp_pending[1].exchange_rate = Dec(1, 0)
    /\ imp_pending[1].price = csv[1].price
    /\ csv[2].symbol = "BBB"
    /\ csv[2].transaction_currency = ""
    /\ RecordCurrency = "USD"

\* The rows of the types given that have the highest transaction_no of
\* their (ticker_id, broker) pair among the rows of those types.
LatestOfPairs(rows, types) ==
    LET sel == {r \in rows : r.transaction_type \in types}
    IN  {r \in sel :
            \A o \in sel : (o.ticker_id = r.ticker_id /\ o.broker = r.broker)
                              => o.transaction_no <= r.transaction_no}

\* The holdings are one for each of the rows given that has units left,
\* with its quantity and cost, and no other.
HoldingsAreOf(latest) ==
    /\ \A r \in latest :
          Cardinality({h \in holdings : h.ticker_id = r.ticker_id /\ h.broker = r.broker})
              = IF r.cumulative_units > 0 THEN 1 ELSE 0
    /\ \A h \in holdings :
          \E r \in latest : /\ h.ticker_id = r.ticker_id
                            /\ h.broker = r.broker
                            /\ h.quantity = r.cumulative_units
                            /\ h.total_cost = r.cumulative_cost

\* C24: when set_holdings has run, the holdings are those of the
\* row with the highest transaction_no of each (ticker, broker) pair,
\* whatever its type.
C24_HoldingsOfLatestRow ==
    holdings_set =>
        HoldingsAreOf(LatestOfPairs(db_transactions, TransactionTypes))


\* The table with another exchange rate on every row.
WithStoredRate(rows, rate) == {[r EXCEPT !.exchange_rate = rate] : r \in rows}

\* C25: the price of a holding does not depend on the exchange rate stored
\* on the transaction rows: with any other rate stored, set_holdings gives
\* the same price for each (ticker, broker) pair.
C25_StoredRateNotUsed ==
    holdings_set =>
        \A rate \in {Dec(1, 0), Dec(5, 1), Dec(2, 0)} :
            {<<h.ticker_id, h.broker, h.price>> : h \in holdings}
                = {<<h.ticker_id, h.broker, h.price>> :
                      h \in set_holdings(WithStoredRate(db_transactions, rate),
                                         db_tickers, db_assets)}


\* A provider's answer holds a search result: an array with an item that
\* deserialises.
HasSearchResult(data) ==
    data.kind = "array" /\ \E i \in 1..Len(data.items) : data.items[i] # "bad"

FirstSearchResult(data) ==
    data.items[CHOOSE i \in 1..Len(data.items) :
                  /\ data.items[i] # "bad"
                  /\ \A j \in 1..(i - 1) : data.items[j] = "bad"]

C29_OneLookupPerRow ==
    prc_pc \in {"join", "done"} =>
        /\ DOMAIN prc_tasks = {r.id : r \in prc_before}
        /\ Len(prc_handles) = Cardinality(prc_before)
        /\ \A id \in DOMAIN prc_tasks :
               prc_tasks[id].lookups
                  = IF prc_tasks[id].st = "running" THEN <<>>
                    ELSE <<TickerRow(prc_before, id).api>>

\* A call over rows of both providers has returned; the lookup of one
\* row failed.
C29_Witness ==
    /\ prc_pc = "done"
    /\ \E a \in DOMAIN prc_tasks, f \in DOMAIN prc_tasks :
          /\ prc_tasks[a].st = "failed" /\ prc_tasks[a].lookups = <<"Av">>
          /\ prc_tasks[f].st = "written" /\ prc_tasks[f].lookups = <<"Fmp">>

UnparsableRows(tickers) == {r \in tickers : r.api \notin {"Av", "Fmp"}}

\* C30: when a ticker row carries a provider tag that does not parse, the
\* call returns an error without having started a task, and the rows it
\* found, those with a valid tag included, are left as they were.
C30_UnparsableTagAborts ==
    (prc_runs > 0 /\ UnparsableRows(prc_before) # {}) =>
        /\ prc_pc = "aborted"
        /\ ~prc_result.ok
        /\ prc_tasks = NoPriceTasks
        /\ prc_handles = <<>>
        /\ \A r \in prc_before : r \in db_tickers

\* The query succeeded over a row with a valid tag and one with a tag that
\* does not parse.
C30_Witness ==
    /\ prc_pc = "aborted"
    /\ prc_result = PricesErr(<<"provider tag">>)
    /\ UnparsableRows(prc_before) # {}
    /\ UnparsableRows(prc_before) # prc_before
    /\ prc_tasks = NoPriceTasks
    /\ \A r \in prc_before : r \in db_tickers


\* The lines of a file that do not repeat the sequence number of the line
\* before them.
RECURSIVE FirstOfEachNo(_)
FirstOfEachNo(file) ==
    IF Len(file) <= 1 THEN file
    ELSE LET front == SubSeq(file, 1, Len(file) - 1)
             last  == file[Len(file)]
         IN  IF last.transaction_no = front[Len(front)].transaction_no
             THEN FirstOfEachNo(front)
             ELSE Append(FirstOfEachNo(front), last)

RepeatsANumber(file) ==
    \E j \in 1..(Len(file) - 1) :
        /\ file[j].transaction_no = file[j + 1].transaction_no
        /\ file[j].transaction_no > 0

\* C31: when a file repeats a sequence number above the watermark, one row
\* with that number is persisted, that of the first line carrying it, and
\* every persisted row has the PositionState and TransactionGains it has
\* when the repeating lines are left out of the file.
C31_DuplicateWithoutInfluence ==
    (Done /\ imp_result.ok /\ last_csv = csv /\ at_begin.transactions = {}
          /\ RepeatsANumber(csv)
          /\ OneShot(FirstOfEachNo(csv)).ok) =>
        /\ UniqueTransactionNo(db_transactions)
        /\ {r.transaction_no : r \in db_transactions}
               = {csv[j].transaction_no : j \in 1..Len(csv)}
        /\ Snapshots(db_transactions) = Snapshots(OneShot(FirstOfEachNo(csv)).rows)


\* The Buy and Sell rows of a row's ticker and broker with a lower sequence
\* number.
EarlierTrades(rows, r) ==
    {e \in rows : /\ e.ticker_id = r.ticker_id
                  /\ e.broker = r.broker
                  /\ e.transaction_type \in {"Buy", "Sell"}
                  /\ e.transaction_no < r.transaction_no}

NoRepeatedNo(file) ==
    \A j \in 1..(Len(file) - 1) : file[j].transaction_no # file[j + 1].transaction_no

\* C32: a Div row persisted by an import into an empty table carries the
\* cumulative_units and cumulative_cost of the latest earlier Buy or Sell
\* row of its ticker and broker (zero when there is none), and no import
\* fails in the calculator at a Div line.
C32_DividendKeepsPosition ==
    (Done /\ last_csv = csv /\ at_begin.transactions = {} /\ NoRepeatedNo(csv)) =>
        /\ imp_result.ok =>
              \A r \in db_transactions :
                  r.transaction_type = "Div" =>
                      LET earlier == EarlierTrades(db_transactions, r)
                      IN  IF earlier = {}
                          THEN r.cumulative_units = 0 /\ r.cumulative_cost = 0
                          ELSE LET e == CHOOSE x \in earlier :
                                           \A y \in earlier :
                                               y.transaction_no <= x.transaction_no
                               IN  /\ r.cumulative_units = e.cumulative_units
                                   /\ r.cumulative_cost = e.cumulative_cost
        /\ (~imp_result.ok /\ imp_result.err = "position state") =>
              csv[imp_result.record].transaction_type # "Div"


WithoutDivs(file) == SelectSeq(file, LAMBDA rec : rec.transaction_type # "Div")

\* The rows a call on the file persists when it begins on the given rows
\* and every lookup, insert and the commit succeed.
RowsOfRun(file, rows) ==
    OneShotFrom(file, 1,
                [ticker_map |-> [sym \in ScanSymbols(file) |->
                                    [ticker |-> TickerOf(sym), id |-> 1]],
                 forex_map |-> get_existing_forex(rows),
                 last_transaction_no |-> get_last_transaction_no(rows),
                 transactions |-> <<>>, rows |-> rows, pending |-> <<>>])

TradeSnapshots(rows) ==
    Snapshots({r \in rows : r.transaction_type \in {"Buy", "Sell"}})

\* C33: after a successful import, the Buy and Sell rows the call persisted
\* carry the PositionState (and the gains computed from it) that the same
\* call persists for them on the file without its Div lines.
C33_DividendsLeaveOthersAlone ==
    (Done /\ imp_result.ok /\ last_csv = csv) =>
        LET without == RowsOfRun(WithoutDivs(csv), at_begin.transactions)
        IN  /\ without.ok
            /\ TradeSnapshots(db_transactions \ at_begin.transactions)
                   \subseteq TradeSnapshots(without.rows)

\* A Sell was persisted after a Div of the same ticker and broker, both in
\* the last call.
C33_Witness ==
    /\ Done /\ imp_result.ok /\ last_csv = csv
    /\ \E d \in db_transactions \ at_begin.transactions,
          r \in db_transactions \ at_begin.transactions :
          /\ d.transaction_type = "Div"
          /\ r.transaction_type \in {"Buy", "Sell"}
          /\ r.ticker_id = d.ticker_id /\ r.broker = d.broker
          /\ r.transaction_no > d.transaction_no


\* C34: a call on a file whose header has fewer than 10 columns returns an
\* error without having spawned a symbol lookup, and leaves the three
\* tables as they were when it began.
C34_ShortHeaderRejected ==
    (imp_pc # "idle" /\ at_begin.columns < 10) =>
        /\ Done
        /\ ~imp_result.ok
        /\ imp_tasks = NoTasks
        /\ imp_handles = <<>>
        /\ db_transactions = at_begin.transactions
        /\ db_tickers = at_begin.tickers
        /\ db_assets = at_begin.assets

\* The call was made with rows in the tables, on a file with a short
\* header that names a symbol no ticker row has.
C34_Witness ==
    /\ Done
    /\ at_begin.columns < 10
    /\ imp_result = ImportErr("header", 0)
    /\ last_csv = csv
    /\ at_begin.transactions # {}
    /\ \E sym \in ScanSymbols(csv) : \A t \in db_tickers : t.symbol # sym
    /\ db_transactions = at_begin.transactions


\* The sum of a column over a set of rows.
RECURSIVE ColumnSum(_, _)
ColumnSum(rows, column) ==
    IF rows = {} THEN 0
    ELSE LET r == CHOOSE x \in rows : TRUE
         IN  r[column] + ColumnSum(rows \ {r}, column)

RowsOfPair(rows, ticker_id, broker) ==
    {r \in rows : r.ticker_id = ticker_id /\ r.broker = broker}

C36_FailedLoadKeepsHoldings ==
    [][ holdings_loads' # holdings_loads =>
            IF holdings_result' = "ok"
            THEN /\ holdings' = set_holdings(db_transactions, db_tickers, db_assets)
                 /\ \A h \in holdings' :
                        \E r \in LatestOfPairs(db_transactions, {"Buy", "Sell"}) :
                            /\ r.ticker_id = h.ticker_id /\ r.broker = h.broker
                            /\ r.cumulative_units > 0
                            /\ h.quantity = r.cumulative_units
            ELSE holdings' = holdings ]_vars

\* The second call failed on tables that have changed since the first one
\* loaded its holdings, which are still there.
C36_Witness ==
    /\ holdings_loads = 2
    /\ holdings_result # "ok"
    /\ holdings # {}
    /\ holdings # set_holdings(db_transactions, db_tickers, db_assets)


AnyPopup == show_api_selector \/ show_database_reset

\* C37: the two popups are never shown together, and a key q, F4, F5, F8
\* or F12 pressed while one is shown neither ends the key loop nor calls
\* the Portfolio nor changes which popup is shown.
C37_PopupsModal ==
    [][ /\ ~(show_api_selector' /\ show_database_reset')
        /\ (AnyPopup /\ app_key' \in {"q", "F4", "F5", "F8", "F12"}) =>
               /\ app_route' # "main"
               /\ app_pc' = "running"
               /\ app_calls' = <<>>
               /\ show_api_selector' = show_api_selector
               /\ show_database_reset' = show_database_reset
               /\ UNCHANGED <<popup_error, app_holdings, default_api>> ]_vars

\* F12 was pressed while the provider popup was shown, which still is.
C37_Witness ==
    /\ app_pc = "running"
    /\ show_api_selector
    /\ ~show_database_reset
    /\ app_key = "F12"
    /\ app_route = "api popup"

\* C38: a selected row of the table is a row of the current holdings; Down
\* from the last row selects the first and Up from the first the last; a
\* key whose handler calls the Portfolio, or changes the number of
\* holdings, leaves no row selected.
C38_SelectionInRange ==
    [][ /\ table_state' # NoneSelected =>
               (table_state' >= 0 /\ table_state' < app_holdings')
        /\ (app_calls' # <<>> \/ app_holdings' # app_holdings) =>
               table_state' = NoneSelected
        /\ (app_route' = "main" /\ app_key' = "Down" /\ app_holdings > 0
                /\ table_state = app_holdings - 1) => table_state' = 0
        /\ (app_route' = "main" /\ app_key' = "Up" /\ app_holdings > 0
                /\ table_state = 0) => table_state' = app_holdings - 1 ]_vars

\* Up has taken the selection from the first of three rows to the last.
C38_Witness ==
    /\ app_holdings = 3
    /\ table_state = 2
    /\ app_key = "Up"
    /\ app_route = "main"

\* C39: after F4 the Portfolio calls made are the import, the price
\* refresh and the reload of the holdings, in this order, and the error
\* shown is that of the first of them that failed, none when all three
\* succeeded.
C39_ImportThenRefreshThenReload ==
    (app_key = "F4" /\ app_route = "main") =>
        /\ Len(app_calls) = 3
        /\ app_calls[1].call = "import_transactions"
        /\ app_calls[2].call = "update_prices"
        /\ app_calls[3].call = "set_holdings"
        /\ popup_error = IF ~app_calls[1].ok THEN "import"
                         ELSE IF ~app_calls[2].ok THEN "prices"
                         ELSE IF ~app_calls[3].ok THEN "holdings"
                         ELSE "none"


\* C40: a call of truncate_tables that succeeds leaves no transaction row
\* and, with clear_assets, no ticker and no asset row, without clear_assets
\* the ticker and asset rows there were; a call in which a DELETE or the
\* commit fails leaves the three tables as they were.
C40_TruncateAtomicAndScoped ==
    [][ reset_calls' # reset_calls =>
            IF reset_last'.fail_at = "none"
            THEN /\ db_transactions' = {}
                 /\ IF reset_last'.clear_assets
                    THEN db_tickers' = {} /\ db_assets' = {}
                    ELSE UNCHANGED <<db_tickers, db_assets>>
            ELSE UNCHANGED <<db_transactions, db_tickers, db_assets>> ]_vars

\* The commit of a call with clear_assets failed on tables with rows, which
\* are all there; the call before it had emptied none of them.
C40_Witness ==
    /\ reset_calls > 0
    /\ reset_last = [clear_assets |-> TRUE, fail_at |-> "commit"]
    /\ db_transactions # {}
    /\ db_tickers # {}
    /\ db_assets # {}

=============================================================================
